---- MODULE Spec2Model ----
(***************************************************************************)
(* Model of the ethconnect REST gateway's admission path and reply paths:  *)
(*   - webhooksDirect (internal/rest/webhooksdirect.go): the in-flight     *)
(*     limiter, sendWebhookMsg and msgContext.Reply, with its mutex;       *)
(*   - rest2eth (contractgateway): the async answer of deployContract /    *)
(*     sendTransaction, and the sync responder with its condition wait.    *)
(***************************************************************************)
EXTENDS Integers, FiniteSets, Sequences, TLC

\* ---------------------------------------------------------------- bounds
MaxCalls == 3      \* dispatches issued to the limiter
MaxCap == 2        \* largest configured MaxInFlight explored (1..MaxCap)
NumMsgIDs == 2     \* distinct message ids a caller may supply
MaxABILen == 2     \* elements of an ABI
MaxCached == 2     \* capacity of the ABI decode cache
MaxDeploys == 3    \* deployments issued to the local store
MaxDeployReqs == 2 \* deploy requests against the ABIs of the store
MaxArrayLen == 2   \* elements of a supplied array
WordBits == 16     \* bits of a packed word

\* N of the integer types int8 and uint8
IntBits == 8

Calls == 1..MaxCalls
MsgIDs == 1..NumMsgIDs

\* ------------------------------------------------------- program constants
StatusOK == 200
StatusAccepted == 202
StatusBadRequest == 400
StatusTooMany == 429
StatusServerError == 500

NoStatus == 0
NoMsgID == 0
Free == <<"free", 0>>

VARIABLES
    \* webhooksDirect
    maxInFlight,    \* conf.MaxInFlight (after validateWebhooksDirectConf)
    inFlightMutex,  \* holder of w.inFlightMutex, or Free
    inFlight,       \* w.inFlight: msgID -> msgContext (named by its call)
    receipts,       \* replies forwarded to receipts.processReply
    \* one sendWebhookMsg call each
    pc,             \* position of the call
    msgID,          \* msgID argument
    headersOK,      \* whether msg["headers"] unmarshals
    numInFlight,    \* local numInFlight read at line 125
    status,         \* returned status
    httpStatus,     \* status rest2eth wrote to the HTTP client
    cancelled,      \* calls whose request context has been cancelled
    \* processor side
    handed,         \* contexts passed to processor.OnMessage
    replyPc,        \* position of msgContext.Reply on that context
    \* history
    overlapped,     \* calls inside sendWebhookMsg when this call took the mutex
    \* rest2eth: one POST handled by deployContract / sendTransaction
    hpc,            \* position of the HTTP handler
    sync,           \* getFlyParamBool("sync", req)
    route,          \* "deploy" (deployContract) or "send" (sendTransaction)
    inline,         \* the sync dispatcher replies before Dispatch...Sync returns
    reqCancelled,   \* req.Context() was cancelled
    dispatched,     \* status of the async dispatch behind DispatchMsgAsync
    resStatus,      \* status written to res (WriteHeader)
    resWrites,      \* number of responses written to res
    resBody,        \* kind of body written to res
    \* rest2EthSyncResponder
    done,           \* responder.done
    waiting,        \* the handler is on waiter's notify list
    notified,       \* a Broadcast has released the parked handler
    \* the dispatcher's reply
    rpc,            \* position of the reply entry point
    entry,          \* which reply entry point the dispatcher invoked
    receipt,        \* the receipt passed to it
    hookFailed,     \* gw.PostDeploy returned an error
    postDeployCalls, \* number of gw.PostDeploy invocations
    \* rest2eth: one request through restHandler
    stage,          \* position of restHandler
    reqPath,        \* the route that matched req.URL.Path
    reqMethod,      \* req.Method
    callParam,      \* getFlyParamBool("call", req)
    addrParam,      \* the :address parameter
    methodParam,    \* the :method parameter
    abi,            \* the ABI resolveABI returned (a), while resolveParams selects
    validAddress,   \* validAddress as resolveABI returned it
    cmd,            \* the restCmd under construction (c)
    op,             \* the operation restHandler invoked
    rtStatus,       \* status written by restHandler or its operation
    rtErr,          \* the error behind an error reply
    outMsg,         \* the DeployContract / SendTransaction message built
    nameCheck,      \* the CheckNameAvailable call made, if any
    handedTo,       \* dispatcher the message was handed to
    queryParams,    \* req.Form as resolveParams reads it (line 420)
    \* remoteRegistry
    rrDB,           \* rr.db is open (init with conf.CacheDB set)
    rrCache,        \* the cache database: key -> stored bytes
    rrLast,         \* the last load: its arguments, what it did and returned
    rrFirst,        \* key -> the first message a load of it returned
    rrStored,       \* key -> the message last written to the cache
    \* contractStore: LocalABI reads
    abiFiles,       \* content of each abi_<id>.deploy.json
    abiCache,       \* cs.abiCache, least recently used entry first
    csLast,         \* the last GetABI: id, whether it read the file, result
    \* contractStore: registrations
    contractIndex,  \* cs.contractIndex: address -> ContractInfo
    contractRegistrations, \* the name side index: name -> address
    deploys,        \* deployments: where each is, and the name it asked for
    \* Txn.Send
    tx,             \* the Txn: gas, signer, privacy fields
    txState,        \* "none", "built", "sent"
    rpcLog,         \* the calls the RPC client captured, in order
    sendErr,        \* the error Send returned, <<>> for none
    txReceipt,      \* what GetTXReceipt found and returned
    \* ABI codec
    codec,          \* one parameter on its way: typed, packed, decoded
    \* contractStore: ABI objects handed out
    mrrDeployMsg,   \* the registry knows the contract
    abiObjects,     \* the object the store's cache holds, by ABI type
    abiLast,        \* what the last GetABI returned
    deployReqs,     \* deploy requests: position, and the headers sent
    \* webhooksDirect configuration
    wdConf          \* the WebhooksDirectConf given, validated, and the error

limVars == <<maxInFlight, inFlightMutex, inFlight, receipts, pc, msgID,
             headersOK, numInFlight, status, httpStatus, cancelled,
             handed, replyPc, overlapped>>

gwVars == <<hpc, sync, route, inline, reqCancelled, dispatched, resStatus,
            resWrites, resBody, done, waiting, notified, rpc, entry, receipt,
            hookFailed, postDeployCalls>>

rtVars == <<stage, reqPath, reqMethod, callParam, addrParam, methodParam,
            abi, validAddress, cmd, op, rtStatus, rtErr, outMsg,
            nameCheck, handedTo, queryParams>>

rrVars == <<rrDB, rrCache, rrLast, rrFirst, rrStored>>

csVars == <<abiFiles, abiCache, csLast>>

regVars == <<contractIndex, contractRegistrations, deploys>>

txVars == <<tx, txState, rpcLog, sendErr, txReceipt>>

cdVars == <<codec>>

abVars == <<mrrDeployMsg, abiObjects, abiLast, deployReqs>>

cfVars == <<wdConf>>

vars == <<limVars, gwVars, rtVars, rrVars, csVars, regVars, txVars, cdVars, abVars, cfVars>>

\* ------------------------------------------------------------ webhooksDirect

\* newWebhooksDirect: empty map, unlocked mutex; MaxInFlight is a validated
\* configuration value (validateWebhooksDirectConf makes it >= 1).
InitLim ==
    /\ maxInFlight \in 1..MaxCap
    /\ inFlightMutex = Free
    /\ inFlight = << >>
    /\ receipts = {}
    /\ pc = [c \in Calls |-> "lock"]
    /\ msgID = [c \in Calls |-> NoMsgID]
    /\ headersOK = [c \in Calls |-> TRUE]
    /\ numInFlight = [c \in Calls |-> 0]
    /\ status = [c \in Calls |-> NoStatus]
    /\ httpStatus = [c \in Calls |-> NoStatus]
    /\ cancelled = {}
    /\ handed = {}
    /\ replyPc = [c \in Calls |-> "none"]
    /\ overlapped = [c \in Calls |-> {}]

\* len(w.inFlight)
MapLen(m) == Cardinality(DOMAIN m)

\* w.inFlight[id] = ctx
MapPut(m, id, ctx) ==
    [k \in (DOMAIN m) \cup {id} |-> IF k = id THEN ctx ELSE m[k]]

\* delete(w.inFlight, id)
MapDelete(m, id) == [k \in (DOMAIN m) \ {id} |-> m[k]]

\* mutants of the admission test: off by one on either side
TooManyInFlightLax(n, max) == n > max

TooManyInFlightStrict(n, max) == n + 1 >= max

\* the admission test of sendWebhookMsg, line 126
TooManyInFlight(n, max) == n >= max

\* REST2EthAsyncDispatcher.DispatchMsgAsync returns (*AsyncSentMsg, error):
\* the dispatcher's status is not part of the interface, only whether it
\* failed.
DispatchMsgAsyncErr(st) == st # StatusOK

\* rest2eth.deployContract / sendTransaction, async branch: any error of
\* DispatchMsgAsync is answered by restErrReply(..., 500), success by
\* restAsyncReply (202).
restAsyncAnswer(st) ==
    IF DispatchMsgAsyncErr(st) THEN StatusServerError ELSE StatusAccepted

\* The caller of a dispatch: rest2eth's async POST path re-serialises its own
\* message struct, so its headers parse; a payload whose headers do not parse
\* comes from a direct caller of sendWebhookMsg.
Origin(ok) == IF ok THEN "rest" ELSE "direct"

\* What the HTTP client is answered once sendWebhookMsg returned st (rest2eth
\* callers only).
Answered(ok, st) ==
    IF Origin(ok) = "rest" THEN restAsyncAnswer(st) ELSE NoStatus

\* message ids already supplied by earlier calls
UsedIDs == {msgID[c] : c \in Calls} \ {NoMsgID}

\* mutant of swLock: the 429 branch lacks its return and falls through
swLockFallThrough(c) ==
    /\ pc[c] = "lock"
    /\ \A d \in Calls : d < c => pc[d] # "lock"
    /\ inFlightMutex = Free
    /\ \E id \in MsgIDs, ok \in BOOLEAN :
        /\ id <= Cardinality(UsedIDs) + 1
        /\ msgID' = [msgID EXCEPT ![c] = id]
        /\ headersOK' = [headersOK EXCEPT ![c] = ok]
        /\ numInFlight' = [numInFlight EXCEPT ![c] = MapLen(inFlight)]
        /\ overlapped' = [overlapped EXCEPT ![c] =
                {d \in Calls : pc[d] \in {"onmsg", "inproc"}}]
        /\ IF TooManyInFlight(MapLen(inFlight), maxInFlight)
           THEN /\ status' = [status EXCEPT ![c] = StatusTooMany]
                /\ httpStatus' = [httpStatus EXCEPT ![c] =
                        Answered(ok, StatusTooMany)]
           ELSE UNCHANGED <<status, httpStatus>>
        /\ inFlightMutex' = <<"dispatch", c>>
        /\ pc' = [pc EXCEPT ![c] = "held"]
    /\ UNCHANGED <<maxInFlight, inFlight, receipts, cancelled, handed,
                   replyPc>>
    /\ UNCHANGED <<gwVars, rtVars, rrVars, csVars, regVars, txVars, cdVars, abVars, cfVars>>

\* sendWebhookMsg, lines 122-130. The caller supplies a message id of its
\* choice (a new one or one used before) and a payload whose headers parse or
\* not; the call takes the mutex, reads the size, and either releases and
\* returns 429 or keeps the mutex and goes on. Calls are numbered in the
\* order they take the mutex, ids in the order of first use.
swLock(c) ==
    /\ pc[c] = "lock"
    /\ \A d \in Calls : d < c => pc[d] # "lock"
    /\ inFlightMutex = Free
    /\ \E id \in MsgIDs, ok \in BOOLEAN :
        /\ id <= Cardinality(UsedIDs) + 1
        /\ msgID' = [msgID EXCEPT ![c] = id]
        /\ headersOK' = [headersOK EXCEPT ![c] = ok]
        /\ numInFlight' = [numInFlight EXCEPT ![c] = MapLen(inFlight)]
        /\ overlapped' = [overlapped EXCEPT ![c] =
                {d \in Calls : pc[d] \in {"onmsg", "inproc"}}]
        /\ IF TooManyInFlight(MapLen(inFlight), maxInFlight)
           THEN /\ inFlightMutex' = Free
                /\ status' = [status EXCEPT ![c] = StatusTooMany]
                /\ httpStatus' = [httpStatus EXCEPT ![c] =
                        Answered(ok, StatusTooMany)]
                /\ cancelled' = cancelled \cup {c}
                /\ pc' = [pc EXCEPT ![c] = "returned"]
           ELSE /\ inFlightMutex' = <<"dispatch", c>>
                /\ pc' = [pc EXCEPT ![c] = "held"]
                /\ UNCHANGED <<status, httpStatus, cancelled>>
    /\ UNCHANGED <<maxInFlight, inFlight, receipts, handed, replyPc>>
    /\ UNCHANGED <<gwVars, rtVars, rrVars, csVars, regVars, txVars, cdVars, abVars, cfVars>>

\* mutant of swInsert: the context is inserted before the headers are parsed
swInsertBeforeParse(c) ==
    /\ pc[c] = "held"
    /\ inFlightMutex = <<"dispatch", c>>
    /\ inFlight' = MapPut(inFlight, msgID[c], c)
    /\ IF ~headersOK[c]
       THEN /\ status' = [status EXCEPT ![c] = StatusBadRequest]
            /\ httpStatus' = [httpStatus EXCEPT ![c] =
                    Answered(headersOK[c], StatusBadRequest)]
            /\ cancelled' = cancelled \cup {c}
            /\ pc' = [pc EXCEPT ![c] = "returned"]
       ELSE /\ pc' = [pc EXCEPT ![c] = "onmsg"]
            /\ UNCHANGED <<status, httpStatus, cancelled>>
    /\ inFlightMutex' = Free
    /\ UNCHANGED <<maxInFlight, receipts, msgID, headersOK, numInFlight,
                   handed, replyPc, overlapped>>
    /\ UNCHANGED <<gwVars, rtVars, rrVars, csVars, regVars, txVars, cdVars, abVars, cfVars>>

\* mutant of swInsert: the mutex is released only on the 400 path, and is
\* held while the processor is called
swInsertKeepsMutex(c) ==
    /\ pc[c] = "held"
    /\ inFlightMutex = <<"dispatch", c>>
    /\ IF ~headersOK[c]
       THEN /\ status' = [status EXCEPT ![c] = StatusBadRequest]
            /\ httpStatus' = [httpStatus EXCEPT ![c] =
                    Answered(headersOK[c], StatusBadRequest)]
            /\ cancelled' = cancelled \cup {c}
            /\ pc' = [pc EXCEPT ![c] = "returned"]
            /\ inFlightMutex' = Free
            /\ UNCHANGED inFlight
       ELSE /\ inFlight' = MapPut(inFlight, msgID[c], c)
            /\ pc' = [pc EXCEPT ![c] = "onmsg"]
            /\ UNCHANGED <<inFlightMutex, status, httpStatus, cancelled>>
    /\ UNCHANGED <<maxInFlight, receipts, msgID, headersOK, numInFlight,
                   handed, replyPc, overlapped>>
    /\ UNCHANGED <<gwVars, rtVars, rrVars, csVars, regVars, txVars, cdVars, abVars, cfVars>>

\* sendWebhookMsg, lines 132-154: parse the headers; on failure release and
\* return 400, otherwise insert the new context under msgID and release.
swInsert(c) ==
    /\ pc[c] = "held"
    /\ inFlightMutex = <<"dispatch", c>>
    /\ IF ~headersOK[c]
       THEN /\ status' = [status EXCEPT ![c] = StatusBadRequest]
            /\ httpStatus' = [httpStatus EXCEPT ![c] =
                    Answered(headersOK[c], StatusBadRequest)]
            /\ cancelled' = cancelled \cup {c}
            /\ pc' = [pc EXCEPT ![c] = "returned"]
            /\ UNCHANGED inFlight
       ELSE /\ inFlight' = MapPut(inFlight, msgID[c], c)
            /\ pc' = [pc EXCEPT ![c] = "onmsg"]
            /\ UNCHANGED <<status, httpStatus, cancelled>>
    /\ inFlightMutex' = Free
    /\ UNCHANGED <<maxInFlight, receipts, msgID, headersOK, numInFlight,
                   handed, replyPc, overlapped>>
    /\ UNCHANGED <<gwVars, rtVars, rrVars, csVars, regVars, txVars, cdVars, abVars, cfVars>>

\* sendWebhookMsg, line 156: w.processor.OnMessage(msgContext), called
\* without the mutex. The processor may reply before OnMessage returns.
swOnMessage(c) ==
    /\ pc[c] = "onmsg"
    /\ handed' = handed \cup {c}
    /\ pc' = [pc EXCEPT ![c] = "inproc"]
    /\ UNCHANGED <<maxInFlight, inFlightMutex, inFlight, receipts, msgID,
                   headersOK, numInFlight, status, httpStatus, cancelled,
                   replyPc, overlapped>>
    /\ UNCHANGED <<gwVars, rtVars, rrVars, csVars, regVars, txVars, cdVars, abVars, cfVars>>

\* sendWebhookMsg, line 157: return "", 200, nil; a rest2eth caller then
\* answers its HTTP client. Once the HTTP handler is over its request
\* context is cancelled, while the msgContext carries context.Background()
\* (line 145) and stays as it is.
swReturn(c) ==
    /\ pc[c] = "inproc"
    /\ status' = [status EXCEPT ![c] = StatusOK]
    /\ httpStatus' = [httpStatus EXCEPT ![c] =
            Answered(headersOK[c], StatusOK)]
    /\ cancelled' = cancelled \cup {c}
    /\ pc' = [pc EXCEPT ![c] = "returned"]
    /\ UNCHANGED <<maxInFlight, inFlightMutex, inFlight, receipts, msgID,
                   headersOK, numInFlight, handed, replyPc, overlapped>>
    /\ UNCHANGED <<gwVars, rtVars, rrVars, csVars, regVars, txVars, cdVars, abVars, cfVars>>

\* mutant of ReplyLock: the reply is not forwarded before the entry goes
ReplyLockNoForward(c) ==
    /\ c \in handed
    /\ replyPc[c] = "none"
    /\ inFlightMutex = Free
    /\ inFlightMutex' = <<"reply", c>>
    /\ replyPc' = [replyPc EXCEPT ![c] = "locked"]
    /\ UNCHANGED <<maxInFlight, inFlight, receipts, pc, msgID, headersOK,
                   numInFlight, status, httpStatus, cancelled, handed,
                   overlapped>>
    /\ UNCHANGED <<gwVars, rtVars, rrVars, csVars, regVars, txVars, cdVars, abVars, cfVars>>

\* msgContext.Reply, lines 103-114 (also reached from SendErrorReply): the
\* processor replies on a context it was handed; Reply takes the mutex,
\* stamps the reply (ReqID is the request's id) and forwards it to the
\* receipt store. Only Reply touches the receipt store, so taking the mutex
\* and forwarding are one step to every other thread.
ReplyLock(c) ==
    /\ c \in handed
    /\ replyPc[c] = "none"
    /\ inFlightMutex = Free
    /\ inFlightMutex' = <<"reply", c>>
    /\ receipts' = receipts \cup {[ctx |-> c, reqID |-> msgID[c]]}
    /\ replyPc' = [replyPc EXCEPT ![c] = "locked"]
    /\ UNCHANGED <<maxInFlight, inFlight, pc, msgID, headersOK,
                   numInFlight, status, httpStatus, cancelled, handed,
                   overlapped>>
    /\ UNCHANGED <<gwVars, rtVars, rrVars, csVars, regVars, txVars, cdVars, abVars, cfVars>>

\* msgContext.Reply, lines 115-116: delete the entry keyed by t.msgID and
\* release (deferred).
ReplyDone(c) ==
    /\ replyPc[c] = "locked"
    /\ inFlightMutex = <<"reply", c>>
    /\ inFlight' = MapDelete(inFlight, msgID[c])
    /\ inFlightMutex' = Free
    /\ replyPc' = [replyPc EXCEPT ![c] = "done"]
    /\ UNCHANGED <<maxInFlight, receipts, pc, msgID, headersOK, numInFlight,
                   status, httpStatus, cancelled, handed, overlapped>>
    /\ UNCHANGED <<gwVars, rtVars, rrVars, csVars, regVars, txVars, cdVars, abVars, cfVars>>

NextLim ==
    \E c \in Calls :
        \/ swLock(c)
        \/ swInsert(c)
        \/ swOnMessage(c)
        \/ swReturn(c)
        \/ ReplyLock(c)
        \/ ReplyDone(c)

\* ------------------------------------------------------------------ rest2eth

MsgTypeTransactionSuccess == "TransactionSuccess"

\* messages.ReplyWithHeaders values a dispatcher replies with: transaction
\* receipts (IsReceipt() non-nil) of the success type or of another type,
\* with or without a ContractAddress, and replies that are no receipt
\* (IsReceipt() nil).
Receipts ==
    [isReceipt : {TRUE},
     msgType : {MsgTypeTransactionSuccess, "TransactionFailure"},
     hasContractAddress : BOOLEAN]
    \cup
    {[isReceipt |-> FALSE, msgType |-> "Error", hasContractAddress |-> FALSE]}

NoReceipt == [isReceipt |-> FALSE, msgType |-> "none", hasContractAddress |-> FALSE]

\* statuses sendWebhookMsg returns behind DispatchMsgAsync
DispatchStatuses == {StatusOK, StatusBadRequest, StatusTooMany}

InitGw ==
    /\ hpc = "new"
    /\ sync = FALSE
    /\ route = "none"
    /\ inline = FALSE
    /\ reqCancelled = FALSE
    /\ dispatched = NoStatus
    /\ resStatus = NoStatus
    /\ resWrites = 0
    /\ resBody = "none"
    /\ done = FALSE
    /\ waiting = FALSE
    /\ notified = FALSE
    /\ rpc = "none"
    /\ entry = "none"
    /\ receipt = NoReceipt
    /\ hookFailed = FALSE
    /\ postDeployCalls = 0

\* mutant of ReceiptStatus: the test is inverted
ReceiptStatusInverted(msgType) ==
    IF msgType = MsgTypeTransactionSuccess THEN StatusServerError ELSE StatusOK

\* ReplyWithReceipt, lines 124-127: status := 200; if MsgType !=
\* MsgTypeTransactionSuccess { status = 500 }
ReceiptStatus(msgType) ==
    IF msgType # MsgTypeTransactionSuccess THEN StatusServerError ELSE StatusOK

\* mutant of CallsPostDeploy: the hook runs for every transaction receipt
CallsPostDeployAnyReceipt(rc) == rc.isReceipt

\* ReplyWithReceipt, lines 116-117: txReceiptMsg != nil &&
\* txReceiptMsg.ContractAddress != nil
CallsPostDeploy(rc) == rc.isReceipt /\ rc.hasContractAddress

\* mutant of LoopExits: the wait loop also gives up on a cancelled request
LoopExitsOnCancel == done \/ reqCancelled

\* the wait loop's test, lines 580 / 628: for !responder.done. The read is
\* not ordered with the replier's write; it yields the value before or after
\* that write, as the interleaving of hCheck and rSetDone has it.
LoopExits == done

\* deployContract / sendTransaction with sync=true, lines 570-578 / 618-626:
\* create the responder (done=false) and call Dispatch...Sync with it. The
\* dispatcher replies either before that call returns or from another thread.
hDispatchSync ==
    /\ hpc = "new"
    /\ \E rt \in {"deploy", "send"}, il \in BOOLEAN :
        /\ route' = rt
        /\ inline' = il
    /\ sync' = TRUE
    /\ done' = FALSE
    /\ rpc' = "handed"
    /\ hpc' = "dispatching"
    /\ UNCHANGED <<reqCancelled, dispatched, resStatus, resWrites, resBody, waiting,
                   notified, entry, receipt, hookFailed, postDeployCalls>>
    /\ UNCHANGED <<limVars, rtVars, rrVars, csVars, regVars, txVars, cdVars, abVars, cfVars>>

\* deployContract / sendTransaction without sync, lines 583-597 / 631-645:
\* DispatchMsgAsync, then restErrReply(500) on any error, restAsyncReply
\* (202) otherwise.
hDispatchAsync ==
    /\ hpc = "new"
    /\ \E rt \in {"deploy", "send"}, st \in DispatchStatuses :
        /\ route' = rt
        /\ dispatched' = st
        /\ resStatus' = restAsyncAnswer(st)
        /\ resBody' = IF DispatchMsgAsyncErr(st) THEN "error" ELSE "asyncSent"
    /\ sync' = FALSE
    /\ resWrites' = resWrites + 1
    /\ hpc' = "returned"
    /\ UNCHANGED <<inline, reqCancelled, done, waiting, notified, rpc, entry,
                   receipt, hookFailed, postDeployCalls>>
    /\ UNCHANGED <<limVars, rtVars, rrVars, csVars, regVars, txVars, cdVars, abVars, cfVars>>

\* Dispatch...Sync returns and the handler takes waiter.L, lines 579 / 627.
hLock ==
    /\ hpc = "dispatching"
    /\ inline => rpc = "finished"
    /\ hpc' = "check"
    /\ UNCHANGED <<sync, route, inline, reqCancelled, dispatched, resStatus,
                   resWrites, resBody, done, waiting, notified, rpc, entry, receipt,
                   hookFailed, postDeployCalls>>
    /\ UNCHANGED <<limVars, rtVars, rrVars, csVars, regVars, txVars, cdVars, abVars, cfVars>>

\* the loop test, lines 580 / 628: leave the loop and return, or go on to Wait
hCheck ==
    /\ hpc = "check"
    /\ hpc' = IF LoopExits THEN "returned" ELSE "adding"
    /\ UNCHANGED <<sync, route, inline, reqCancelled, dispatched, resStatus,
                   resWrites, resBody, done, waiting, notified, rpc, entry, receipt,
                   hookFailed, postDeployCalls>>
    /\ UNCHANGED <<limVars, rtVars, rrVars, csVars, regVars, txVars, cdVars, abVars, cfVars>>

\* sync.Cond.Wait, first half: join the notify list, release L and park.
hWait ==
    /\ hpc = "adding"
    /\ waiting' = TRUE
    /\ hpc' = "parked"
    /\ UNCHANGED <<sync, route, inline, reqCancelled, dispatched, resStatus,
                   resWrites, resBody, done, notified, rpc, entry, receipt,
                   hookFailed, postDeployCalls>>
    /\ UNCHANGED <<limVars, rtVars, rrVars, csVars, regVars, txVars, cdVars, abVars, cfVars>>

\* sync.Cond.Wait, second half: released by a Broadcast, retake L, loop.
hWake ==
    /\ hpc = "parked"
    /\ notified
    /\ waiting' = FALSE
    /\ notified' = FALSE
    /\ hpc' = "check"
    /\ UNCHANGED <<sync, route, inline, reqCancelled, dispatched, resStatus,
                   resWrites, resBody, done, rpc, entry, receipt, hookFailed,
                   postDeployCalls>>
    /\ UNCHANGED <<limVars, rtVars, rrVars, csVars, regVars, txVars, cdVars, abVars, cfVars>>

\* the client goes away or the deadline passes: req.Context() is cancelled
\* while the handler is running. The responder holds no reference to it.
reqCancel ==
    /\ hpc \notin {"new", "returned"}
    /\ ~reqCancelled
    /\ reqCancelled' = TRUE
    /\ UNCHANGED <<hpc, sync, route, inline, dispatched, resStatus, resWrites, resBody,
                   done, waiting, notified, rpc, entry, receipt, hookFailed,
                   postDeployCalls>>
    /\ UNCHANGED <<limVars, rtVars, rrVars, csVars, regVars, txVars, cdVars, abVars, cfVars>>

\* the response a reply entry point writes, up to res.Write
Written(e, rc, st, body, fail) ==
    /\ entry' = e
    /\ receipt' = rc
    /\ hookFailed' = fail
    /\ resStatus' = st
    /\ resBody' = body
    /\ resWrites' = resWrites + 1
    /\ rpc' = "written"

\* ReplyWithError, lines 95-96: restErrReply(res, req, err, 500)
ReplyWithError ==
    /\ Written("ReplyWithError", NoReceipt, StatusServerError, "error", FALSE)
    /\ UNCHANGED postDeployCalls

\* ReplyWithReceiptAndError, lines 102-109: status := 500, write
ReplyWithReceiptAndError(rc) ==
    /\ Written("ReplyWithReceiptAndError", rc, StatusServerError,
               "receiptAndError", FALSE)
    /\ UNCHANGED postDeployCalls

\* mutant of ReplyWithReceipt: the failed hook's branch lacks its return, and
\* the plain receipt is written after the receipt-and-error response
ReplyWithReceiptNoReturn(rc) ==
    IF CallsPostDeploy(rc)
    THEN /\ postDeployCalls' = postDeployCalls + 1
         /\ \E fail \in BOOLEAN :
              /\ entry' = "ReplyWithReceipt"
              /\ receipt' = rc
              /\ hookFailed' = fail
              /\ resStatus' = IF fail THEN StatusServerError
                                      ELSE ReceiptStatus(rc.msgType)
              /\ resBody' = "receipt"
              /\ resWrites' = resWrites + (IF fail THEN 2 ELSE 1)
              /\ rpc' = "written"
    ELSE /\ UNCHANGED postDeployCalls
         /\ Written("ReplyWithReceipt", rc, ReceiptStatus(rc.msgType),
                    "receipt", FALSE)

\* ReplyWithReceipt, lines 115-133: the post-deploy hook for a receipt with
\* a contract address; on its failure the reply is that of
\* ReplyWithReceiptAndError (which also sets done and broadcasts) and nothing
\* else is written; otherwise the status follows the receipt's MsgType.
ReplyWithReceipt(rc) ==
    IF CallsPostDeploy(rc)
    THEN /\ postDeployCalls' = postDeployCalls + 1
         /\ \E fail \in BOOLEAN :
              Written("ReplyWithReceipt", rc,
                      IF fail THEN StatusServerError
                              ELSE ReceiptStatus(rc.msgType),
                      IF fail THEN "receiptAndError" ELSE "receipt", fail)
    ELSE /\ UNCHANGED postDeployCalls
         /\ Written("ReplyWithReceipt", rc, ReceiptStatus(rc.msgType),
                    "receipt", FALSE)

\* The dispatcher invokes one reply entry point on the responder it was
\* handed: inside Dispatch...Sync, or from its own thread at any time.
rReply ==
    /\ rpc = "handed"
    /\ inline => hpc = "dispatching"
    /\ \/ ReplyWithError
       \/ \E rc \in Receipts : ReplyWithReceiptAndError(rc)
       \/ \E rc \in Receipts : ReplyWithReceipt(rc)
    /\ UNCHANGED <<hpc, sync, route, inline, reqCancelled, dispatched, done,
                   waiting, notified>>
    /\ UNCHANGED <<limVars, rtVars, rrVars, csVars, regVars, txVars, cdVars, abVars, cfVars>>

\* i.done = true, lines 97 / 110 / 134, written without holding waiter.L
rSetDone ==
    /\ rpc = "written"
    /\ done' = TRUE
    /\ rpc' = "doneset"
    /\ UNCHANGED <<hpc, sync, route, inline, reqCancelled, dispatched,
                   resStatus, resWrites, resBody, waiting, notified, entry, receipt,
                   hookFailed, postDeployCalls>>
    /\ UNCHANGED <<limVars, rtVars, rrVars, csVars, regVars, txVars, cdVars, abVars, cfVars>>

\* i.waiter.Broadcast(), lines 98 / 111 / 135, called without holding
\* waiter.L: releases the handler only if it is on the notify list now.
rBroadcast ==
    /\ rpc = "doneset"
    /\ notified' = (notified \/ waiting)
    /\ rpc' = "finished"
    /\ UNCHANGED <<hpc, sync, route, inline, reqCancelled, dispatched,
                   resStatus, resWrites, resBody, done, waiting, entry, receipt,
                   hookFailed, postDeployCalls>>
    /\ UNCHANGED <<limVars, rtVars, rrVars, csVars, regVars, txVars, cdVars, abVars, cfVars>>

NextGw ==
    \/ hDispatchSync
    \/ hDispatchAsync
    \/ hLock
    \/ hCheck
    \/ hWait
    \/ hWake
    \/ reqCancel
    \/ rReply
    \/ rSetDone
    \/ rBroadcast

\* ---------------------------------------------------------- rest2eth routing
\* One HTTP request through restHandler: resolveParams (resolveABI, the
\* method / event / constructor selection, from, body and parameters), the
\* choice of the operation, and deployContract / sendTransaction up to the
\* hand-over to the sync or async dispatcher.

StatusNotFound == 404
StatusConflict == 409
StatusUnauthorized == 401
StatusNotAllowed == 405

\* A string is a sequence of chunks: "0x" / "0X", a block of 40 characters,
\* or a word. The empty string is <<>>.
Hex40 == {"aaaa", "bbbb", "cccc"}     \* 40 lowercase hexadecimal characters

\* blocks of 40 characters of [0-9a-z]: the hexadecimal ones, and "zzzz"
\* with letters beyond f
Alnum40 == Hex40 \cup {"zzzz"}

\* strings.ToLower, chunk by chunk
ToLowerChunk(ch) ==
    CASE ch = "0X" -> "0x"
      [] ch = "AAAA" -> "aaaa"
      [] ch = "Subscribe" -> "subscribe"
      [] OTHER -> ch

ToLower(s) == [i \in DOMAIN s |-> ToLowerChunk(s[i])]

\* strings.TrimPrefix(s, "0x")
TrimPrefix0x(s) == IF Len(s) > 0 /\ s[1] = "0x" THEN Tail(s) ELSE s

\* "0x" + s
Prefix0x(s) == <<"0x">> \o s

\* addrCheck, line 93: ^(0x)?[0-9a-z]{40}$
addrCheck(s) == \E h \in Alnum40 : s = <<h>> \/ s = <<"0x", h>>

\* tx.IsHDWalletRequest(s) != nil
IsHDWalletRequest(s) == s = <<"hd-testinst-testwallet-1234">>

\* doubleURLDecode, lines 521-528: url.QueryUnescape with its error dropped
\* (an invalid escape yields ""), then every " " becomes "+".
doubleURLDecode(s) ==
    CASE s = <<"a%3D">> -> <<"a=">>
      [] s = <<"a+b">> -> <<"a+b">>
      [] s = <<"%zz">> -> <<>>
      [] OTHER -> s

\* routes of addRoutes, lines 152-180 (the /i/ and /g/ short forms and the
\* /:subcommand forms resolve like the ones listed)
Paths ==
    {[prefix |-> "contracts", abi |-> FALSE, address |-> TRUE, method |-> TRUE,
      verbs |-> {"POST", "GET"}],
     [prefix |-> "abis", abi |-> TRUE, address |-> FALSE, method |-> FALSE,
      verbs |-> {"POST"}],
     [prefix |-> "abis", abi |-> TRUE, address |-> TRUE, method |-> TRUE,
      verbs |-> {"POST", "GET"}],
     [prefix |-> "instances", abi |-> FALSE, address |-> FALSE,
      method |-> TRUE, verbs |-> {"POST", "GET"}],
     [prefix |-> "gateways", abi |-> FALSE, address |-> FALSE,
      method |-> FALSE, verbs |-> {"POST"}],
     [prefix |-> "gateways", abi |-> FALSE, address |-> TRUE, method |-> TRUE,
      verbs |-> {"POST", "GET"}]}

NoPath ==
    [prefix |-> "none", abi |-> FALSE, address |-> FALSE, method |-> FALSE,
     verbs |-> {}]

\* values of the :address, :abi and :method path parameters
AddrParams ==
    {<<"0x", "aaaa">>, <<"AAAA">>, <<"cccc">>, <<"somecontract">>,
     <<"nosuch">>, <<"Changed">>, <<"0x", "0x", "aaaa">>, <<"zzzz">>}

ABIParams == {"abi1", "nosuch"}

MethodParams ==
    {<<"set">>, <<"get">>, <<"subscribe">>, <<"Subscribe">>, <<"Changed">>,
     <<"nosuch">>}

\* ABI elements (ethbinding.ABIElementMarshaling): Type, Name, the names of
\* the Inputs, and whether the method is constant (view / pure)
NoElement ==
    [type |-> "none", name |-> <<>>, inputs |-> <<>>, constant |-> FALSE]

Elements ==
    {[type |-> "function", name |-> <<"set">>, inputs |-> <<"x", "">>,
      constant |-> FALSE],
     [type |-> "function", name |-> <<"get">>, inputs |-> <<>>,
      constant |-> TRUE],
     [type |-> "event", name |-> <<"Changed">>, inputs |-> <<>>,
      constant |-> FALSE],
     [type |-> "event", name |-> <<"subscribe">>, inputs |-> <<>>,
      constant |-> FALSE],
     [type |-> "event", name |-> <<"set">>, inputs |-> <<>>,
      constant |-> FALSE],
     [type |-> "constructor", name |-> <<>>, inputs |-> <<"">>,
      constant |-> FALSE]}

\* resolveConstructor, lines 292-294: &ABIElementMarshaling{Type: "constructor"}
DefaultConstructor ==
    [type |-> "constructor", name |-> <<>>, inputs |-> <<>>,
     constant |-> FALSE]

\* ABIs (ethbinding.ABIMarshaling): lists of distinct elements
ABIs ==
    {s \in UNION {[1..n -> Elements] : n \in 0..MaxABILen} :
        \A i, j \in DOMAIN s : s[i] = s[j] => i = j}

\* the contract store behind r.cr, as TestBuildIndex leaves it: instances by
\* address with their ABI id, the index of registered names, the ABI ids
contractIdx == (<<"aaaa">> :> "abi1") @@ (<<"bbbb">> :> "abi2")

nameIdx == (<<"somecontract">> :> <<"bbbb">>)

abiIdx == {"abi1", "abi2"}

ResolveContractAddress(name) ==
    IF name \in DOMAIN nameIdx
    THEN [err |-> FALSE, addr |-> nameIdx[name]]
    ELSE [err |-> TRUE, addr |-> <<>>]

GetContractByAddress(addr) ==
    IF addr \in DOMAIN contractIdx
    THEN [err |-> FALSE, ABI |-> contractIdx[addr]]
    ELSE [err |-> TRUE, ABI |-> ""]

\* results of r.cr.GetABI(location, false): a local id absent from the index
\* fails with "No ABI found with ID", a local id whose file cannot be read
\* fails with "Failed to load ABI", the remote registry yields a message
\* (with an address only for an instance), nothing, or an error.
GetABI(location) ==
    LET ok(addrs, remote) ==
            {[kind |-> "ok", abi |-> s, address |-> ad, remote |-> remote] :
                s \in ABIs, ad \in addrs}
        none == [kind |-> "nil", abi |-> <<>>, address |-> <<>>,
                 remote |-> FALSE]
        fail == [kind |-> "err", abi |-> <<>>, address |-> <<>>,
                 remote |-> FALSE]
    IN  CASE location.ABIType = "LocalABI" ->
                IF location.Name \in abiIdx
                THEN ok({<<>>}, FALSE) \cup {fail}
                ELSE {fail}
          [] location.ABIType = "RemoteGateway" ->
                ok({<<>>}, TRUE) \cup {none, fail}
          [] location.ABIType = "RemoteInstance" ->
                ok({<<>>, <<"cccc">>}, TRUE) \cup {none, fail}

\* outcome of resolveABI: an error reply, or the loaded ABI with c.addr
Failed(st, e, name) ==
    [status |-> st, err |-> e, addr |-> <<>>, validAddress |-> FALSE,
     abiName |-> name, remote |-> FALSE, abi |-> <<>>]

\* resolveABI, lines 243-259: GetABI, 500 on its error, 404 on a nil result,
\* c.addr replaced by a non-empty deployMsg.Address
loadABI(location, addr, valid) ==
    {IF g.kind = "err"
     THEN Failed(StatusServerError, "GetABI", location.Name)
     ELSE IF g.kind = "nil"
     THEN Failed(StatusNotFound, "RESTGatewayInstanceNotFound",
                 location.Name)
     ELSE [status |-> NoStatus, err |-> "", validAddress |-> valid,
           addr |-> IF g.address # <<>> THEN g.address ELSE addr,
           abiName |-> location.Name, remote |-> g.remote, abi |-> g.abi] :
        g \in GetABI(location)}

\* mutant of resolveLocal: the name is not resolved, the instance is looked
\* up under the lowercased :address
resolveLocalNoName(ap, addr0, valid0) ==
    LET info == GetContractByAddress(addr0)
    IN  IF info.err
        THEN {Failed(StatusNotFound, "GetContractByAddress", "")}
        ELSE loadABI([ABIType |-> "LocalABI", Name |-> info.ABI],
                     addr0, TRUE)

\* resolveABI, lines 225-239: /contracts/:address; an :address that is no
\* valid address is resolved as a registered name, then the instance found
\* by address names the ABI
resolveLocal(ap, addr0, valid0) ==
    LET r == IF valid0 THEN [err |-> FALSE, addr |-> addr0]
                       ELSE ResolveContractAddress(ap)
        info == GetContractByAddress(r.addr)
    IN  IF r.err THEN {Failed(StatusNotFound, "ResolveContractAddress", "")}
        ELSE IF info.err
        THEN {Failed(StatusNotFound, "GetContractByAddress", "")}
        ELSE loadABI([ABIType |-> "LocalABI", Name |-> info.ABI],
                     r.addr, TRUE)

\* resolveABI, lines 199-260
resolveABI(path, ap) ==
    LET addr0 == ToLower(TrimPrefix0x(ap))
        valid0 == addrCheck(addr0)
    IN  CASE path.prefix = "gateways" ->
                loadABI([ABIType |-> "RemoteGateway", Name |-> "lookup"],
                        addr0, valid0)
          [] path.prefix = "instances" ->
                loadABI([ABIType |-> "RemoteInstance", Name |-> "lookup"],
                        addr0, TRUE)
          [] path.abi ->
                UNION {loadABI([ABIType |-> "LocalABI", Name |-> id],
                               addr0, valid0) : id \in ABIParams}
          [] OTHER -> resolveLocal(ap, addr0, valid0)

\* least index of a non-empty set of indices: the first element a range
\* loop meets
First(S) == CHOOSE i \in S : \A j \in S : i <= j

\* resolveMethod, lines 262-275: the first function named methodParam
resolveMethod(a, m) ==
    LET S == {i \in DOMAIN a : a[i].type = "function" /\ a[i].name = m}
    IN  IF S = {} THEN NoElement ELSE a[First(S)]

\* mutant of resolveEvent: c.addr is kept when the event is named as :address
resolveEventKeepAddr(a, m, mLC, ap) ==
    LET S == {i \in DOMAIN a :
                a[i].type = "event" /\
                (a[i].name = m \/
                 (mLC = <<"subscribe">> /\ a[i].name = ap))}
    IN  IF S = {} THEN [event |-> NoElement, clearAddr |-> FALSE]
        ELSE [event |-> a[First(S)], clearAddr |-> FALSE]

\* resolveEvent, lines 301-315: the first event named methodParam or, when
\* :method is "subscribe" in lowercase, named as :address; in that second
\* case c.addr is cleared
resolveEvent(a, m, mLC, ap) ==
    LET S == {i \in DOMAIN a :
                a[i].type = "event" /\
                (a[i].name = m \/
                 (mLC = <<"subscribe">> /\ a[i].name = ap))}
    IN  IF S = {} THEN [event |-> NoElement, clearAddr |-> FALSE]
        ELSE [event |-> a[First(S)], clearAddr |-> a[First(S)].name # m]

\* mutant of resolveConstructor: a declared constructor is not looked for
resolveConstructorDefault(a) == DefaultConstructor

\* resolveConstructor, lines 277-299: the first declared constructor, else
\* the default one
resolveConstructor(a) ==
    LET S == {i \in DOMAIN a : a[i].type = "constructor"}
    IN  IF S = {} THEN DefaultConstructor ELSE a[First(S)]

\* mutant of selectTarget: an event is looked for before a function
selectTargetEventFirst(a, m, ap) ==
    LET evr == IF m # <<>> THEN resolveEvent(a, m, ToLower(m), ap)
               ELSE [event |-> NoElement, clearAddr |-> FALSE]
        meth == IF m # <<>> /\ evr.event = NoElement
                THEN resolveMethod(a, m) ELSE NoElement
        ctor == IF m = <<>> THEN resolveConstructor(a) ELSE NoElement
    IN  [abiMethod |-> IF ctor # NoElement THEN ctor ELSE meth,
         abiEvent |-> evr.event,
         isDeploy |-> ctor # NoElement,
         clearAddr |-> evr.clearAddr]

\* resolveParams, lines 341-364: the function named :method; failing that
\* an event; with no :method the constructor
selectTarget(a, m, ap) ==
    LET meth == IF m # <<>> THEN resolveMethod(a, m) ELSE NoElement
        evr == IF meth = NoElement /\ m # <<>>
               THEN resolveEvent(a, m, ToLower(m), ap)
               ELSE [event |-> NoElement, clearAddr |-> FALSE]
        ctor == IF m = <<>> /\ meth = NoElement /\ evr.event = NoElement
                THEN resolveConstructor(a) ELSE NoElement
    IN  [abiMethod |-> IF ctor # NoElement THEN ctor ELSE meth,
         abiEvent |-> evr.event,
         isDeploy |-> ctor # NoElement,
         clearAddr |-> evr.clearAddr]

\* keys of the body and of the query string
ParamNames == {"x", "input", "input1"}

\* req.Form without any of these keys
NoQuery == [n \in ParamNames |-> <<>>]

\* restCmd, lines 182-197, with of deployMsg the id of its ABI and whether
\* its headers carry the remote registry's context key
NoCmd ==
    [addr |-> <<>>, abiName |-> "", remote |-> FALSE,
     abiMethod |-> NoElement, abiEvent |-> NoElement, isDeploy |-> FALSE,
     from |-> <<>>, transactionHash |-> <<>>, body |-> {},
     msgParams |-> <<>>]

NoMsg ==
    [kind |-> "none", To |-> <<>>, PrivateFor |-> <<>>,
     PrivacyGroupID |-> <<>>, RegisterAs |-> <<>>]

NoCheck == [called |-> FALSE, isRemote |-> FALSE, taken |-> FALSE]

InitRt ==
    /\ stage = "new"
    /\ reqPath = NoPath
    /\ reqMethod = "none"
    /\ callParam = FALSE
    /\ addrParam = <<>>
    /\ methodParam = <<>>
    /\ abi = <<>>
    /\ validAddress = FALSE
    /\ cmd = NoCmd
    /\ op = "none"
    /\ rtStatus = NoStatus
    /\ rtErr = ""
    /\ outMsg = NoMsg
    /\ nameCheck = NoCheck
    /\ handedTo = "none"
    /\ queryParams = NoQuery

\* restErrReply, lines 737-744, seen from restHandler: the status is
\* written and the handler returns
restErrReply(e, st) ==
    /\ rtErr' = e
    /\ rtStatus' = st
    /\ stage' = "answered"

\* resolveParams, lines 329-333: resolveABI on the :address parameter
resolveParamsABI ==
    /\ stage = "new"
    /\ \E p \in Paths, ap \in AddrParams \cup {<<>>} :
        /\ p.address <=> ap # <<>>
        /\ \E r \in resolveABI(p, ap) :
            /\ reqPath' = p
            /\ addrParam' = ap
            /\ validAddress' = r.validAddress
            /\ abi' = r.abi
            /\ cmd' = [cmd EXCEPT !.addr = r.addr, !.abiName = r.abiName,
                                  !.remote = r.remote]
            /\ IF r.status # NoStatus
               THEN restErrReply(r.err, r.status)
               ELSE /\ stage' = "abi"
                    /\ UNCHANGED <<rtStatus, rtErr>>
    /\ UNCHANGED <<reqMethod, callParam, methodParam, op,
                   outMsg, nameCheck, handedTo>>
    /\ UNCHANGED <<limVars, gwVars, rrVars, csVars, regVars, txVars, cdVars, abVars, cfVars, queryParams>>

\* resolveParams, line 379: c.addr != "" && !validAddress
ToAddressRejected(addr, valid) == addr # <<>> /\ ~valid

\* resolveParams, lines 341-387: the target of the request. A declared
\* element may fail to convert (ABIElementMarshalingTo...), which is
\* answered 400.
resolveParamsTarget ==
    /\ stage = "abi"
    /\ \E m \in MethodParams \cup {<<>>}, convOK \in BOOLEAN :
        LET t == selectTarget(abi, m, addrParam)
            addr1 == IF t.clearAddr THEN <<>> ELSE cmd.addr
            declared == t.abiMethod \in Elements \/ t.abiEvent \in Elements
        IN  /\ reqPath.method <=> m # <<>>
            /\ ~declared => convOK
            /\ methodParam' = m
            /\ IF ~convOK
               THEN /\ cmd' = [cmd EXCEPT !.addr = addr1]
                    /\ restErrReply("RESTGatewayABIInvalid", StatusBadRequest)
               ELSE IF t.abiMethod = NoElement /\ t.abiEvent = NoElement
               THEN /\ cmd' = [cmd EXCEPT !.addr = addr1]
                    /\ restErrReply(
                         IF ToLower(m) = <<"subscribe">>
                         THEN "RESTGatewayEventNotDeclared"
                         ELSE "RESTGatewayMethodNotDeclared", StatusNotFound)
               ELSE IF ToAddressRejected(addr1, validAddress)
               THEN /\ cmd' = [cmd EXCEPT !.addr = addr1,
                                          !.abiMethod = t.abiMethod,
                                          !.abiEvent = t.abiEvent,
                                          !.isDeploy = t.isDeploy]
                    /\ restErrReply("RESTGatewayInvalidToAddress",
                                    StatusNotFound)
               ELSE /\ cmd' = [cmd EXCEPT
                                 !.addr = IF addr1 # <<>> THEN Prefix0x(addr1)
                                          ELSE addr1,
                                 !.abiMethod = t.abiMethod,
                                 !.abiEvent = t.abiEvent,
                                 !.isDeploy = t.isDeploy]
                    /\ stage' = "target"
                    /\ UNCHANGED <<rtStatus, rtErr>>
    /\ UNCHANGED <<reqPath, reqMethod, callParam, addrParam, abi,
                   validAddress, op, outMsg, nameCheck, handedTo>>
    /\ UNCHANGED <<limVars, gwVars, rrVars, csVars, regVars, txVars, cdVars, abVars, cfVars, queryParams>>

\* values of the from parameter, the transaction parameter, and the names
\* under which the body and the query string carry values
FromParams ==
    {<<>>, <<"0x", "aaaa">>, <<"hd-testinst-testwallet-1234">>, <<"bogus">>,
     <<"0x", "0x", "aaaa">>, <<"zzzz">>}

TxHashes == {<<>>, <<"0xhash">>}

\* resolveParams, lines 424-429: the name under which the input at position
\* i (from 0) is looked up; "input" + strconv.Itoa(i) for an unnamed one
argName(i, name) ==
    IF name # "" THEN name
    ELSE CASE i = 0 -> "input"
           [] i = 1 -> "input1"
           [] i = 2 -> "input2"
           [] OTHER -> "inputN"

\* req.Form: each key with its list of values (named by their position)
Queries == [ParamNames -> {<<>>, <<1, 2>>}]

\* mutant of paramValue: the query string is consulted before the body
paramValueQueryFirst(name, body, query) ==
    IF name \in DOMAIN query /\ Len(query[name]) > 0
    THEN [src |-> "query", key |-> name, n |-> query[name][1]]
    ELSE IF name \in body THEN [src |-> "body", key |-> name, n |-> 0]
    ELSE [src |-> "missing", key |-> name, n |-> 0]

\* resolveParams, lines 431-439: the body value of that key if the body has
\* it, else the first query value of that key, else nothing
paramValue(name, body, query) ==
    IF name \in body THEN [src |-> "body", key |-> name, n |-> 0]
    ELSE IF name \in DOMAIN query /\ Len(query[name]) > 0
    THEN [src |-> "query", key |-> name, n |-> query[name][1]]
    ELSE [src |-> "missing", key |-> name, n |-> 0]

\* keys a request for a method with these inputs carries in its body or its
\* query string: those the method's inputs are looked up under, and "x"
\* (which the method may not have)
RequestKeys(inputs) ==
    {argName(i - 1, inputs[i]) : i \in DOMAIN inputs} \cup {"x"}

\* resolveParams, lines 419-440: one entry per input, in ABI order
marshalParams(inputs, body, query) ==
    [i \in DOMAIN inputs |->
        paramValue(argName(i - 1, inputs[i]), body, query)]

\* resolveParams, lines 389-443: from, the body, transaction, and the
\* parameters of the selected method
resolveParamsInputs ==
    /\ stage = "target"
    /\ abi' = <<>>
    /\ \E From \in FromParams, bodyOK \in BOOLEAN, txh \in TxHashes,
          body \in SUBSET RequestKeys(cmd.abiMethod.inputs),
          query \in {q \in Queries :
                        \A n \in ParamNames \ RequestKeys(cmd.abiMethod.inputs) :
                            q[n] = <<>>} :
        LET fromNo0xPrefix == ToLower(TrimPrefix0x(From))
            from == IF fromNo0xPrefix = <<>> THEN <<>>
                    ELSE IF addrCheck(fromNo0xPrefix)
                    THEN Prefix0x(fromNo0xPrefix)
                    ELSE fromNo0xPrefix
            ps == marshalParams(cmd.abiMethod.inputs, body, query)
        IN  IF /\ fromNo0xPrefix # <<>>
               /\ ~addrCheck(fromNo0xPrefix)
               /\ ~IsHDWalletRequest(fromNo0xPrefix)
            THEN /\ restErrReply("RESTGatewayInvalidFromAddress",
                                 StatusNotFound)
                 /\ UNCHANGED <<cmd, queryParams>>
            ELSE IF ~bodyOK
            THEN /\ restErrReply("YAMLorJSONPayload", StatusBadRequest)
                 /\ cmd' = [cmd EXCEPT !.from = from]
                 /\ UNCHANGED queryParams
            ELSE IF cmd.abiEvent # NoElement \/ txh # <<>>
            THEN /\ cmd' = [cmd EXCEPT !.from = from, !.body = body,
                                       !.transactionHash = txh]
                 /\ stage' = "resolved"
                 /\ UNCHANGED <<rtStatus, rtErr, queryParams>>
            ELSE IF \E i \in DOMAIN ps : ps[i].src = "missing"
            THEN /\ restErrReply("RESTGatewayMissingParameter",
                                 StatusBadRequest)
                 /\ cmd' = [cmd EXCEPT !.from = from, !.body = body]
                 /\ queryParams' = query
            ELSE /\ cmd' = [cmd EXCEPT !.from = from, !.body = body,
                                       !.msgParams = ps]
                 /\ queryParams' = query
                 /\ stage' = "resolved"
                 /\ UNCHANGED <<rtStatus, rtErr>>
    /\ UNCHANGED <<reqPath, reqMethod, callParam, addrParam, methodParam,
                   validAddress, op, outMsg, nameCheck, handedTo>>
    /\ UNCHANGED <<limVars, gwVars, rrVars, csVars, regVars, txVars, cdVars, abVars, cfVars>>

\* mutant of restHandlerOp: from is required before the operation is chosen
restHandlerOpFromFirst(c, verb, call) ==
    IF c.from = <<>> THEN "restErrReply"
    ELSE IF c.abiEvent # NoElement THEN "subscribeEvent"
    ELSE IF c.transactionHash # <<>> THEN "lookupTransaction"
    ELSE IF verb # "POST" \/ c.abiMethod.constant \/ call THEN "callContract"
    ELSE IF c.isDeploy THEN "deployContract"
    ELSE "sendTransaction"

\* mutant of restHandlerOp: call=true no longer turns a POST into a call
restHandlerOpNoCallFlag(c, verb, call) ==
    IF c.abiEvent # NoElement THEN "subscribeEvent"
    ELSE IF c.transactionHash # <<>> THEN "lookupTransaction"
    ELSE IF verb # "POST" \/ c.abiMethod.constant THEN "callContract"
    ELSE IF c.from = <<>> THEN "restErrReply"
    ELSE IF c.isDeploy THEN "deployContract"
    ELSE "sendTransaction"

\* restHandler, lines 453-468: the operation invoked for a resolved command,
\* or the 400 reply for a transaction without from
restHandlerOp(c, verb, call) ==
    IF c.abiEvent # NoElement THEN "subscribeEvent"
    ELSE IF c.transactionHash # <<>> THEN "lookupTransaction"
    ELSE IF verb # "POST" \/ c.abiMethod.constant \/ call THEN "callContract"
    ELSE IF c.from = <<>> THEN "restErrReply"
    ELSE IF c.isDeploy THEN "deployContract"
    ELSE "sendTransaction"

\* restHandler, lines 445-469, after resolveParams has returned a command
restHandler ==
    /\ stage = "resolved"
    /\ queryParams' = NoQuery
    /\ \E verb \in reqPath.verbs, call \in BOOLEAN :
        /\ reqMethod' = verb
        /\ callParam' = call
        /\ IF restHandlerOp(cmd, verb, call) = "restErrReply"
           THEN /\ restErrReply("RESTGatewayMissingFromAddress",
                                StatusBadRequest)
                /\ UNCHANGED op
           ELSE /\ op' = restHandlerOp(cmd, verb, call)
                /\ stage' = "op"
                /\ UNCHANGED <<rtStatus, rtErr>>
    /\ UNCHANGED <<reqPath, addrParam, methodParam, abi,
                   validAddress, cmd, outMsg, nameCheck, handedTo>>
    /\ UNCHANGED <<limVars, gwVars, rrVars, csVars, regVars, txVars, cdVars, abVars, cfVars>>

\* subscribeEvent, lines 480-519: 401, 405, 400 or 200
subscribeEvent ==
    /\ stage = "op"
    /\ op = "subscribeEvent"
    /\ \E st \in {StatusUnauthorized, StatusNotAllowed, StatusBadRequest,
                  StatusOK} : rtStatus' = st
    /\ stage' = "answered"
    /\ UNCHANGED <<reqPath, reqMethod, callParam, addrParam, methodParam,
                   abi, validAddress, cmd, op, rtErr, outMsg, nameCheck,
                   handedTo>>
    /\ UNCHANGED <<limVars, gwVars, rrVars, csVars, regVars, txVars, cdVars, abVars, cfVars, queryParams>>

\* lookupTransaction, lines 671-725: 500 or 200
lookupTransaction ==
    /\ stage = "op"
    /\ op = "lookupTransaction"
    /\ \E st \in {StatusServerError, StatusOK} : rtStatus' = st
    /\ stage' = "answered"
    /\ UNCHANGED <<reqPath, reqMethod, callParam, addrParam, methodParam,
                   abi, validAddress, cmd, op, rtErr, outMsg, nameCheck,
                   handedTo>>
    /\ UNCHANGED <<limVars, gwVars, rrVars, csVars, regVars, txVars, cdVars, abVars, cfVars, queryParams>>

\* callContract, lines 649-669: 500 or 200
callContract ==
    /\ stage = "op"
    /\ op = "callContract"
    /\ \E st \in {StatusServerError, StatusOK} : rtStatus' = st
    /\ stage' = "answered"
    /\ UNCHANGED <<reqPath, reqMethod, callParam, addrParam, methodParam,
                   abi, validAddress, cmd, op, rtErr, outMsg, nameCheck,
                   handedTo>>
    /\ UNCHANGED <<limVars, gwVars, rrVars, csVars, regVars, txVars, cdVars, abVars, cfVars, queryParams>>

\* values of the privatefor (multi-valued), privacygroupid and register
\* parameters
PrivateForParams == {<<>>, << <<"a%3D">> >>}

PrivacyGroupParams == {<<>>, <<"a+b">>, <<"%zz">>}

RegisterParams == {<<>>, <<"somecontract">>, <<"lobster">>}

\* what the remote registry answers to LoadFactoryForInstance(name)
RegistryAnswers == {"found", "nil", "err"}

\* mutant of MixedPrivateForAndGroupID: the parameters are never in conflict
MixedNeverRejected(privateFor, privacyGroupID) == FALSE

\* addPrivateTx, line 537
MixedPrivateForAndGroupID(privateFor, privacyGroupID) ==
    Len(privateFor) > 0 /\ privacyGroupID # <<>>

\* addPrivateTx, lines 530-541: the decoded privacy fields of the message
\* and whether they are rejected
addPrivateTx(pf, pg) ==
    LET privateFor == [i \in DOMAIN pf |-> doubleURLDecode(pf[i])]
        privacyGroupID == doubleURLDecode(pg)
    IN  [PrivateFor |-> privateFor, PrivacyGroupID |-> privacyGroupID,
         err |-> MixedPrivateForAndGroupID(privateFor, privacyGroupID)]

\* contractregistry.IsRemote (TestIsRemote): the headers' context carries
\* the remote registry's key with the value true
IsRemote(remoteCtx) == remoteCtx

\* CheckNameAvailable(name, false): a clash when the name index has the name
LocalNameClash(name) == name \in DOMAIN nameIdx

\* CheckNameAvailable(name, isRemote) (TestCheckNameAvailableRRDuplicate,
\* TestCheckNameAvailableRRFail): with isRemote, the registry's error, or a
\* clash when it has an instance of that name. TRUE is an error.
CheckNameAvailable(name, isRemote, registry) ==
    IF isRemote THEN registry \in {"found", "err"}
    ELSE LocalNameClash(name)

\* whether the name is bound to an address where the check looks
NameTaken(name, isRemote, registry) ==
    IF isRemote THEN registry = "found" ELSE name \in DOMAIN nameIdx

\* sync=true: Dispatch...Sync with a responder, lines 570-582 / 618-630;
\* else DispatchMsgAsync, answered 500 on its error and 202 otherwise,
\* lines 583-597 / 631-645
dispatch(sy, st) ==
    IF sy
    THEN /\ handedTo' = "sync"
         /\ stage' = "dispatched"
         /\ UNCHANGED <<rtStatus, rtErr>>
    ELSE /\ handedTo' = "async"
         /\ stage' = "answered"
         /\ rtStatus' = restAsyncAnswer(st)
         /\ rtErr' = IF DispatchMsgAsyncErr(st) THEN "DispatchMsgAsync" ELSE ""

\* deployContract, lines 550-599
deployContract ==
    /\ stage = "op"
    /\ op = "deployContract"
    /\ \E pf \in PrivateForParams, pg \in PrivacyGroupParams,
          reg \in RegisterParams, registry \in RegistryAnswers,
          sy \in BOOLEAN, st \in DispatchStatuses :
        LET p == addPrivateTx(pf, pg)
            isRemote == IsRemote(cmd.remote)
        IN  IF p.err
            THEN /\ outMsg' = [kind |-> "DeployContract", To |-> <<>>,
                               PrivateFor |-> p.PrivateFor,
                               PrivacyGroupID |-> p.PrivacyGroupID,
                               RegisterAs |-> <<>>]
                 /\ restErrReply("RESTGatewayMixedPrivateForAndGroupID",
                                 StatusBadRequest)
                 /\ UNCHANGED <<nameCheck, handedTo>>
            ELSE /\ outMsg' = [kind |-> "DeployContract", To |-> <<>>,
                               PrivateFor |-> p.PrivateFor,
                               PrivacyGroupID |-> p.PrivacyGroupID,
                               RegisterAs |-> reg]
                 /\ IF reg = <<>>
                    THEN /\ UNCHANGED nameCheck
                         /\ dispatch(sy, st)
                    ELSE /\ isRemote \/ registry = "nil"   \* not asked
                         /\ nameCheck' =
                              [called |-> TRUE, isRemote |-> isRemote,
                               taken |-> NameTaken(reg, isRemote, registry)]
                         /\ IF CheckNameAvailable(reg, isRemote, registry)
                            THEN /\ restErrReply("CheckNameAvailable",
                                                 StatusConflict)
                                 /\ UNCHANGED handedTo
                            ELSE dispatch(sy, st)
    /\ UNCHANGED <<reqPath, reqMethod, callParam, addrParam, methodParam,
                   abi, validAddress, cmd, op>>
    /\ UNCHANGED <<limVars, gwVars, rrVars, csVars, regVars, txVars, cdVars, abVars, cfVars, queryParams>>

\* sendTransaction, lines 601-647
sendTransaction ==
    /\ stage = "op"
    /\ op = "sendTransaction"
    /\ \E pf \in PrivateForParams, pg \in PrivacyGroupParams,
          sy \in BOOLEAN, st \in DispatchStatuses :
        LET p == addPrivateTx(pf, pg)
        IN  /\ outMsg' = [kind |-> "SendTransaction", To |-> cmd.addr,
                          PrivateFor |-> p.PrivateFor,
                          PrivacyGroupID |-> p.PrivacyGroupID,
                          RegisterAs |-> <<>>]
            /\ IF p.err
               THEN /\ restErrReply("RESTGatewayMixedPrivateForAndGroupID",
                                    StatusBadRequest)
                    /\ UNCHANGED handedTo
               ELSE dispatch(sy, st)
    /\ UNCHANGED <<reqPath, reqMethod, callParam, addrParam, methodParam,
                   abi, validAddress, cmd, op, nameCheck>>
    /\ UNCHANGED <<limVars, gwVars, rrVars, csVars, regVars, txVars, cdVars, abVars, cfVars, queryParams>>

NextRt ==
    \/ resolveParamsABI
    \/ resolveParamsTarget
    \/ resolveParamsInputs
    \/ restHandler
    \/ subscribeEvent
    \/ lookupTransaction
    \/ callContract
    \/ deployContract
    \/ sendTransaction

\* ----------------------------------------------------------- remote registry

\* remoteRegistry with both URL prefixes configured: loads by lookup string
\* against a registry whose answer to each GET is an input, and the cache
\* database behind rr.db.

LookupStrs == {<<"a/b">>}

\* url.QueryEscape
QueryEscape(s) == IF s = <<"a/b">> THEN <<"a%2Fb">> ELSE s

\* ns + "/" + safeLookupStr, lines 131 and 189
cacheKey(ns, lookupStr) == <<ns, "/">> \o QueryEscape(lookupStr)

CacheKeys == {cacheKey(ns, l) : ns \in {"gateways", "instances"},
                                l \in LookupStrs}

\* a property of the JSON response: absent, null, a number, or a string
PropMissing == [kind |-> "missing", s |-> <<>>]
PropNull == [kind |-> "null", s |-> <<>>]
PropNumber == [kind |-> "number", s |-> <<>>]
PropString(s) == [kind |-> "string", s |-> s]

\* two well-formed registry entries
Bodies ==
    {[id |-> PropString(<<"rid1">>), abi |-> PropString(<<"[set]">>),
      devdoc |-> PropString(<<"doc">>),
      bytecode |-> PropString(<<"0x", "c0de">>),
      address |-> PropString(<<"0x", "AAAA">>)],
     [id |-> PropString(<<"rid2">>), abi |-> PropString(<<"[get]">>),
      devdoc |-> PropNull, bytecode |-> PropString(<<"cafe">>),
      address |-> PropMissing]}

\* the same with one property missing or malformed
FaultyBodies ==
    UNION {{[b EXCEPT !.id = PropMissing],
            [b EXCEPT !.abi = PropMissing],
            [b EXCEPT !.abi = PropString(<<"{bad">>)],
            [b EXCEPT !.devdoc = PropMissing],
            [b EXCEPT !.devdoc = PropNumber],
            [b EXCEPT !.bytecode = PropNull],
            [b EXCEPT !.bytecode = PropString(<<"abc">>)],
            [b EXCEPT !.bytecode = PropString(<<"zz">>)]} : b \in Bodies}

NoBody ==
    [id |-> PropMissing, abi |-> PropMissing, devdoc |-> PropMissing,
     bytecode |-> PropMissing, address |-> PropMissing]

\* what the registry answers to one GET: a status with a JSON body, or no
\* answer at all (status 0)
Responses ==
    {[status |-> StatusOK, body |-> b] : b \in Bodies \cup FaultyBodies}
    \cup {[status |-> st, body |-> NoBody] :
            st \in {0, StatusNotFound, StatusServerError}}

\* mutant of DoRequest: a 404 is an error like any other status
DoRequestNotFoundIsError(resp) ==
    CASE resp.status = StatusOK ->
            [jsonRes |-> resp.body, nil |-> FALSE, err |-> ""]
      [] resp.status = 0 ->
            [jsonRes |-> NoBody, nil |-> TRUE, err |-> "request failed"]
      [] OTHER ->
            [jsonRes |-> NoBody, nil |-> TRUE, err |-> "status"]

\* rr.hr.DoRequest("GET", ...): the body of a 2xx answer, nothing and no
\* error for a 404, an error otherwise
DoRequest(resp) ==
    CASE resp.status = StatusOK ->
            [jsonRes |-> resp.body, nil |-> FALSE, err |-> ""]
      [] resp.status = StatusNotFound ->
            [jsonRes |-> NoBody, nil |-> TRUE, err |-> ""]
      [] resp.status = 0 ->
            [jsonRes |-> NoBody, nil |-> TRUE, err |-> "request failed"]
      [] OTHER ->
            [jsonRes |-> NoBody, nil |-> TRUE, err |-> "status"]

\* rr.hr.GetResponseString(jsonRes, prop, emptyOK)
GetResponseString(v, emptyOK) ==
    CASE v.kind = "missing" -> [s |-> <<>>, err |-> "missing"]
      [] v.kind = "number" -> [s |-> <<>>, err |-> "not a string"]
      [] v.kind = "null" \/ v.s = <<>> ->
            [s |-> <<>>, err |-> IF emptyOK THEN "" ELSE "empty (or null)"]
      [] OTHER -> [s |-> v.s, err |-> ""]

\* json.Unmarshal([]byte(abiString), &abi)
UnmarshalABI(s) ==
    CASE s = <<"[set]">> -> [abi |-> <<"set">>, err |-> FALSE]
      [] s = <<"[get]">> -> [abi |-> <<"get">>, err |-> FALSE]
      [] OTHER -> [abi |-> <<>>, err |-> TRUE]

\* hex.DecodeString: pairs of hexadecimal digits to bytes
DecodeString(s) ==
    CASE s = <<"c0de">> -> [bytes |-> <<192, 222>>, err |-> FALSE]
      [] s = <<"cafe">> -> [bytes |-> <<202, 254>>, err |-> FALSE]
      [] s = <<>> -> [bytes |-> <<>>, err |-> FALSE]
      [] OTHER -> [bytes |-> <<>>, err |-> TRUE]

\* deployContractWithAddress: Headers.ID, ABI, DevDoc, Compiled, Address
NoFactory ==
    [isNil |-> TRUE, id |-> <<>>, abi |-> <<>>, devdoc |-> <<>>,
     compiled |-> <<>>, address |-> <<>>]

\* base64 of []byte in encoding/json
Base64 == (<<192, 222>> :> "wN4=") @@ (<<202, 254>> :> "yv4=")
              @@ (<<>> :> "")

Base64Decode(s) == CHOOSE b \in DOMAIN Base64 : Base64[b] = s

\* json.Marshal(msg), line 212: the bytes stored under the key
Marshal(msg) ==
    <<msg.id, msg.abi, msg.devdoc, Base64[msg.compiled], msg.address>>

\* json.Unmarshal(b, &msg), lines 202-203
Unmarshal(b) ==
    [isNil |-> FALSE, id |-> b[1], abi |-> b[2], devdoc |-> b[3],
     compiled |-> Base64Decode(b[4]), address |-> b[5]]

\* no bytes under a key: rr.db.Get fails
NoBytes == <<>>

InitRR ==
    /\ rrDB = FALSE
    /\ rrCache = [k \in CacheKeys |-> NoBytes]
    /\ rrFirst = [k \in CacheKeys |-> NoFactory]
    /\ rrStored = [k \in CacheKeys |-> NoFactory]
    /\ rrLast = [ns |-> "none", lookupStr |-> <<>>, refresh |-> FALSE,
                 get |-> FALSE, status |-> 0, msg |-> NoFactory,
                 err |-> "", stored |-> FALSE]

\* remoteRegistry.init, lines 119-126, with conf.CacheDB set
init ==
    /\ ~rrDB
    /\ rrDB' = TRUE
    /\ UNCHANGED <<rrCache, rrFirst, rrLast, rrStored>>
    /\ UNCHANGED <<limVars, gwVars, rtVars, csVars, regVars, txVars, cdVars, abVars, cfVars>>

\* mutant of loadFactoryFromCacheDB: the cache is never hit
loadFactoryFromCacheDBMiss(key) == NoFactory

\* loadFactoryFromCacheDB, lines 193-207
loadFactoryFromCacheDB(key) ==
    IF ~rrDB THEN NoFactory
    ELSE IF rrCache[key] = NoBytes THEN NoFactory
    ELSE Unmarshal(rrCache[key])

\* mutant of storeFactoryToCacheDB: an existing entry is kept
storeFactoryToCacheDBIfAbsent(key, msg, putOK) ==
    IF rrDB /\ putOK /\ rrCache[key] = NoBytes
    THEN [rrCache EXCEPT ![key] = Marshal(msg)]
    ELSE rrCache

\* storeFactoryToCacheDB, lines 209-219: the cache after the call, where
\* rr.db.Put may fail
storeFactoryToCacheDB(key, msg, putOK) ==
    IF rrDB /\ putOK THEN [rrCache EXCEPT ![key] = Marshal(msg)]
    ELSE rrCache

\* what a load returns, with what it did: whether it issued the GET, the
\* status it got, whether the cache write succeeded, and the cache after it
Loaded(msg, err, get, st, stored, cache) ==
    [msg |-> msg, err |-> err, get |-> get, status |-> st,
     stored |-> stored, cache |-> cache]

\* loadFactoryFromURL, lines 128-191
loadFactoryFromURL(ns, lookupStr, refresh, resp, putOK) ==
    LET key == cacheKey(ns, lookupStr)
        cached == IF refresh THEN NoFactory ELSE loadFactoryFromCacheDB(key)
        r == DoRequest(resp)
        idString == GetResponseString(r.jsonRes.id, FALSE)
        abiString == GetResponseString(r.jsonRes.abi, FALSE)
        abiJSON == UnmarshalABI(abiString.s)
        devdoc == GetResponseString(r.jsonRes.devdoc, TRUE)
        bytecodeStr == GetResponseString(r.jsonRes.bytecode, FALSE)
        bytecode == DecodeString(TrimPrefix0x(bytecodeStr.s))
        addr == GetResponseString(r.jsonRes.address, FALSE)
        msg == [isNil |-> FALSE, id |-> idString.s, abi |-> abiJSON.abi,
                devdoc |-> devdoc.s, compiled |-> bytecode.bytes,
                address |-> ToLower(TrimPrefix0x(addr.s))]
        fail(e) == Loaded(NoFactory, e, TRUE, resp.status, FALSE, rrCache)
    IN  IF ~cached.isNil THEN Loaded(cached, "", FALSE, 0, FALSE, rrCache)
        ELSE IF r.err # "" \/ r.nil THEN fail(r.err)
        ELSE IF idString.err # "" THEN fail("id")
        ELSE IF abiString.err # "" THEN fail("abi")
        ELSE IF abiJSON.err THEN fail("abi json")
        ELSE IF devdoc.err # "" THEN fail("devdoc")
        ELSE IF bytecodeStr.err # "" THEN fail("bytecode")
        ELSE IF bytecode.err THEN fail("bytecode hex")
        ELSE Loaded(msg, "", TRUE, resp.status, rrDB /\ putOK,
                    storeFactoryToCacheDB(key, msg, putOK))

\* the call recorded with its result; the first message a key was loaded
\* with while the cache database was open, and the message last written to
\* the cache under the key, are remembered
Called(ns, lookupStr, refresh, r, result) ==
    LET key == cacheKey(ns, lookupStr)
    IN  /\ rrLast' = [ns |-> ns, lookupStr |-> lookupStr,
                      refresh |-> refresh, get |-> r.get,
                      status |-> r.status, msg |-> result, err |-> r.err,
                      stored |-> r.stored]
        /\ rrCache' = r.cache
        /\ rrFirst' = IF rrDB /\ rrFirst[key].isNil /\ ~r.msg.isNil
                      THEN [rrFirst EXCEPT ![key] = r.msg]
                      ELSE rrFirst
        /\ rrStored' = IF r.stored THEN [rrStored EXCEPT ![key] = r.msg]
                       ELSE rrStored
        /\ UNCHANGED rrDB

\* &msg.DeployContract: the message without the address
DeployContractOf(msg) == [msg EXCEPT !.address = <<>>]

\* loadFactoryForGateway, lines 221-231
loadFactoryForGateway ==
    /\ \E lookupStr \in LookupStrs, refresh \in BOOLEAN, resp \in Responses,
          putOK \in BOOLEAN :
        LET r == loadFactoryFromURL("gateways", lookupStr, refresh, resp,
                                    putOK)
        IN  Called("gateways", lookupStr, refresh, r,
                   IF r.msg.isNil THEN NoFactory ELSE DeployContractOf(r.msg))
    /\ UNCHANGED <<limVars, gwVars, rtVars, csVars, regVars, txVars, cdVars, abVars, cfVars>>

\* loadFactoryForInstance, lines 233-238
loadFactoryForInstance ==
    /\ \E lookupStr \in LookupStrs, refresh \in BOOLEAN, resp \in Responses,
          putOK \in BOOLEAN :
        LET r == loadFactoryFromURL("instances", lookupStr, refresh, resp,
                                    putOK)
        IN  Called("instances", lookupStr, refresh, r, r.msg)
    /\ UNCHANGED <<limVars, gwVars, rtVars, csVars, regVars, txVars, cdVars, abVars, cfVars>>

NextRR ==
    \/ init
    \/ loadFactoryForGateway
    \/ loadFactoryForInstance

\* ------------------------------------------------------ local contract store

\* contractStore.GetABI for a LocalABI location: the ABI index as Init built
\* it, the abi_<id>.deploy.json files, and the LRU cache of decoded messages.

\* ids in abiIndex (one more than the cache holds), and an id that is not
ABIIDs == 1..(MaxCached + 1)

UnknownABIID == 0

\* contents of an abi_<id>.deploy.json file: two serialized DeployContract
\* messages, and the empty file
FileContents == {"msg1", "msg2", ""}

\* ioutil.ReadFile and json.Unmarshal of the file: an empty file does not
\* parse
parseDeployFile(content) ==
    IF content = "" THEN [err |-> "Failed to parse ABI", msg |-> "none"]
    ELSE [err |-> "", msg |-> content]

\* abiCache: entries from the least to the most recently used
cacheIDs(cache) == {cache[i].id : i \in DOMAIN cache}

\* mutant of cacheHit: the cache is not consulted
cacheHitNever(cache, id) == FALSE

\* the "cache hit" of TestLoadDeployMsgOK
cacheHit(cache, id) == id \in cacheIDs(cache)

cacheValue(cache, id) ==
    (CHOOSE i \in DOMAIN cache : cache[i].id = id)

\* lru.Get: the entry becomes the most recently used
cacheGet(cache, id) ==
    LET i == cacheValue(cache, id)
    IN  SubSeq(cache, 1, i - 1) \o SubSeq(cache, i + 1, Len(cache))
            \o <<cache[i]>>

\* lru.Add: the entry is added as the most recently used, and the least
\* recently used one is evicted on overflow
cacheAdd(cache, id, msg) ==
    LET c == cache \o <<[id |-> id, msg |-> msg]>>
    IN  IF Len(c) > MaxCached THEN Tail(c) ELSE c

InitCS ==
    /\ abiFiles = [id \in ABIIDs |-> "msg1"]
    /\ abiCache = <<>>
    /\ csLast = [id |-> UnknownABIID, fileRead |-> FALSE, err |-> "",
                 msg |-> "none"]

\* ioutil.WriteFile on a deploy file, as the tests do between two reads
WriteFile ==
    /\ \E id \in ABIIDs, content \in FileContents :
        /\ abiFiles[id] # content
        /\ abiFiles' = [abiFiles EXCEPT ![id] = content]
    /\ UNCHANGED <<abiCache, csLast>>
    /\ UNCHANGED <<limVars, gwVars, rtVars, rrVars, regVars, txVars, cdVars, abVars, cfVars>>

\* GetABI(ABILocation{ABIType: LocalABI, Name: id}, false)
GetLocalABI ==
    /\ \E id \in ABIIDs \cup {UnknownABIID} :
        LET parsed == parseDeployFile(abiFiles[id])
        IN  IF cacheHit(abiCache, id)
            THEN /\ abiCache' = cacheGet(abiCache, id)
                 /\ csLast' = [id |-> id, fileRead |-> FALSE, err |-> "",
                               msg |-> abiCache[cacheValue(abiCache, id)].msg]
            ELSE IF id \notin ABIIDs
            THEN /\ csLast' = [id |-> id, fileRead |-> FALSE,
                               err |-> "No ABI found with ID", msg |-> "none"]
                 /\ UNCHANGED abiCache
            ELSE IF parsed.err # ""
            THEN /\ csLast' = [id |-> id, fileRead |-> TRUE,
                               err |-> parsed.err, msg |-> "none"]
                 /\ UNCHANGED abiCache
            ELSE /\ csLast' = [id |-> id, fileRead |-> TRUE, err |-> "",
                               msg |-> parsed.msg]
                 /\ abiCache' = cacheAdd(abiCache, id, parsed.msg)
    /\ UNCHANGED abiFiles
    /\ UNCHANGED <<limVars, gwVars, rtVars, rrVars, regVars, txVars, cdVars, abVars, cfVars>>

NextCS ==
    \/ WriteFile
    \/ GetLocalABI

\* ------------------------------------- local contract store: registrations

\* Deployments that ask for a registered name: deployContract checks the
\* name when the request arrives, the contract is entered into the store
\* when its receipt has come back.

Deploys == 1..MaxDeploys

\* names requested with fly-register; "" asks for none
RegisterNames == {"somecontract", "lobster"}

\* contract addresses: deployment k creates the contract at address k; the
\* store starts with the instance at address 0 registered as "somecontract"
ContractAddrs == 0..MaxDeploys

NoInfo == [Address |-> -1, ABI |-> "", RegisteredAs |-> ""]

NoAddr == -1

InitReg ==
    /\ contractIndex =
          [a \in ContractAddrs |->
              IF a = 0
              THEN [Address |-> 0, ABI |-> "abi1",
                    RegisteredAs |-> "somecontract"]
              ELSE NoInfo]
    /\ contractRegistrations =
          [n \in RegisterNames |-> IF n = "somecontract" THEN 0 ELSE NoAddr]
    /\ deploys = [k \in Deploys |-> [state |-> "none", RegisterAs |-> ""]]

\* CheckNameAvailable(name, false): an address is already bound to the name
\* in the name side index
nameBound(name) == contractRegistrations[name] # NoAddr

\* deployContract, lines 563-569 and 570-597, for an ABI of the local store:
\* a requested name that is bound is answered 409, otherwise the deployment
\* is dispatched
deployContractLocal ==
    /\ \E k \in Deploys, name \in RegisterNames \cup {""} :
        /\ deploys[k].state = "none"
        /\ \A j \in 1..(k - 1) : deploys[j].state # "none"
        /\ deploys' =
              [deploys EXCEPT ![k] =
                  [state |-> IF name # "" /\ nameBound(name)
                             THEN "conflict" ELSE "dispatched",
                   RegisterAs |-> name]]
    /\ UNCHANGED <<contractIndex, contractRegistrations>>
    /\ UNCHANGED <<limVars, gwVars, rtVars, rrVars, csVars, txVars, cdVars, abVars, cfVars>>

\* mutant of addToIndex: the name is given to the new contract whether or
\* not another address holds it
addToIndexOverwrite(idx, regs, info) ==
    [entered |-> TRUE,
     contractIndex |-> [idx EXCEPT ![info.Address] = info],
     contractRegistrations |->
        IF info.RegisteredAs # ""
        THEN [regs EXCEPT ![info.RegisteredAs] = info.Address]
        ELSE regs]

\* the indices after a ContractInfo has been offered to them: contractIndex
\* by address, and the name side index for a non-empty RegisteredAs. The
\* uniqueness of RegisteredAs is enforced: a name that another address holds
\* is not given away, and the contract is not entered
addToIndex(idx, regs, info) ==
    IF /\ info.RegisteredAs # ""
       /\ regs[info.RegisteredAs] # NoAddr
       /\ regs[info.RegisteredAs] # info.Address
    THEN [entered |-> FALSE, contractIndex |-> idx,
          contractRegistrations |-> regs]
    ELSE [entered |-> TRUE,
          contractIndex |-> [idx EXCEPT ![info.Address] = info],
          contractRegistrations |->
             IF info.RegisteredAs # ""
             THEN [regs EXCEPT ![info.RegisteredAs] = info.Address]
             ELSE regs]

\* the contract of a dispatched deployment, its receipt having come back,
\* is written with storeContractInfo and offered to the indices
storeContractInfo ==
    /\ \E k \in Deploys :
        /\ deploys[k].state = "dispatched"
        /\ LET info == [Address |-> k, ABI |-> "abi1",
                        RegisteredAs |-> deploys[k].RegisterAs]
               after == addToIndex(contractIndex, contractRegistrations,
                                   info)
           IN  /\ contractIndex' = after.contractIndex
               /\ contractRegistrations' = after.contractRegistrations
               /\ deploys' =
                     [deploys EXCEPT ![k].state =
                         IF after.entered THEN "registered" ELSE "refused"]
    /\ UNCHANGED <<limVars, gwVars, rtVars, rrVars, csVars, txVars, cdVars, abVars, cfVars>>

NextReg ==
    \/ deployContractLocal
    \/ storeContractInfo

\* ------------------------------------------------------ transaction sender

\* msg.Gas of the tests: unset (0) or "456"
GasValues == {0, 456}

PrivateFroms == {"", "oD76"}

PrivateFors == {<<>>, <<"s6a3">>}

PrivacyGroupIDs == {"", "P8Sx"}

\* the fields of a Txn that Send looks at
Txns ==
    [gas : GasValues, signer : BOOLEAN, PrivateFrom : PrivateFroms,
     PrivateFor : PrivateFors, PrivacyGroupID : PrivacyGroupIDs]

NoTxn ==
    [gas |-> 0, signer |-> FALSE, PrivateFrom |-> "", PrivateFor |-> <<>>,
     PrivacyGroupID |-> ""]

\* what testRPCClient.CallContext answers: mockError / mockError2
NoError == <<>>

EstimateErrors == {NoError, <<"pop">>}

CallErrors == {NoError, <<"call fails">>}

SubmitErrors == {NoError, <<"submit fails">>}

SignErrors == {NoError, <<"pop">>}

\* one captured call: capturedMethod, the privacy arguments it carried and
\* the error it was answered with
rpcCall(method, t, err) ==
    [method |-> method,
     privateFor |-> IF method = "eth_sendRawTransaction"
                    THEN <<>> ELSE t.PrivateFor,
     privacyGroupId |-> IF method = "eth_sendRawTransaction"
                        THEN "" ELSE t.PrivacyGroupID,
     err |-> err]

SubmitMethods ==
    {"eth_sendTransaction", "eea_sendTransaction", "eth_sendRawTransaction"}

\* tx.Receipt.BlockNumber: <<>> for nil, else the one number
BlockNumbers == {<<>>, <<0>>, <<10>>}

ReceiptErrors == {NoError, <<"pop">>}

NoReceiptResult == [BlockNumber |-> <<>>, isMined |-> FALSE, err |-> NoError]

InitTx ==
    /\ tx = NoTxn
    /\ txState = "none"
    /\ rpcLog = <<>>
    /\ sendErr = NoError
    /\ txReceipt = NoReceiptResult

\* NewContractDeployTxn / NewSendTxn: the transaction of a message, with or
\* without a signer
NewTxn ==
    /\ txState = "none"
    /\ \E t \in Txns : tx' = t
    /\ txState' = "built"
    /\ UNCHANGED <<rpcLog, sendErr, txReceipt>>
    /\ UNCHANGED <<limVars, gwVars, rtVars, rrVars, csVars, regVars, cdVars, abVars, cfVars>>

\* mutant of needsEstimate: no estimation when a signer is configured
needsEstimateUnsigned(t) == t.gas = 0 /\ ~t.signer

\* Send estimates the gas when none was supplied, with a signer
\* (TestSendWithTXSignerOK) as without one (...SimpleStorageCalcGas)
needsEstimate(t) == t.gas = 0

\* mutant of calculateGas: a failed estimation is passed over
calculateGasIgnoreFailure(t, estimateErr, callErr) ==
    [calls |-> <<rpcCall("eth_estimateGas", t, estimateErr)>>,
     err |-> NoError]

\* the gas calculation: eth_estimateGas, and when that fails an eth_call
\* whose outcome picks the error returned
calculateGas(t, estimateErr, callErr) ==
    IF estimateErr = NoError
    THEN [calls |-> <<rpcCall("eth_estimateGas", t, NoError)>>,
          err |-> NoError]
    ELSE [calls |-> <<rpcCall("eth_estimateGas", t, estimateErr),
                      rpcCall("eth_call", t, callErr)>>,
          err |-> IF callErr # NoError
                  THEN <<"Call failed: ">> \o callErr
                  ELSE <<"Failed to calculate gas for transaction: ">>
                           \o estimateErr]

\* a transaction a signer is not asked to sign
isPrivate(t) == t.PrivateFor # <<>> \/ t.PrivacyGroupID # ""

\* the signer path: private transactions are refused, a signing error is
\* returned, the signed bytes go out with eth_sendRawTransaction
sendSigned(t, signErr, submitErr) ==
    IF isPrivate(t)
    THEN [calls |-> <<>>,
          err |-> <<"Signing with ", "mock signer",
                    " is not currently supported with private transactions">>]
    ELSE IF signErr # NoError
    THEN [calls |-> <<>>, err |-> signErr]
    ELSE [calls |-> <<rpcCall("eth_sendRawTransaction", t, submitErr)>>,
          err |-> submitErr]

\* mutant of submitTXtoNode: a privacy group without private-from is
\* submitted all the same
submitTXtoNodeNoFromCheck(t, submitErr) ==
    IF t.PrivacyGroupID # ""
    THEN [calls |-> <<rpcCall("eea_sendTransaction", t, submitErr)>>,
          err |-> submitErr]
    ELSE [calls |-> <<rpcCall("eth_sendTransaction", t, submitErr)>>,
          err |-> submitErr]

\* the node-signed path: the method follows from the privacy fields
submitTXtoNode(t, submitErr) ==
    IF t.PrivacyGroupID # ""
    THEN IF t.PrivateFrom = ""
         THEN [calls |-> <<>>,
               err |-> <<"private-from is required when submitting ",
                         "private transactions via Orion">>]
         ELSE [calls |-> <<rpcCall("eea_sendTransaction", t, submitErr)>>,
               err |-> submitErr]
    ELSE [calls |-> <<rpcCall("eth_sendTransaction", t, submitErr)>>,
          err |-> submitErr]

\* Txn.Send: gas calculation when needed, then the signer or the node
Send ==
    /\ txState = "built"
    /\ \E estimateErr \in EstimateErrors, callErr \in CallErrors,
          signErr \in SignErrors, submitErr \in SubmitErrors :
        LET gasCalc == IF needsEstimate(tx)
                       THEN calculateGas(tx, estimateErr, callErr)
                       ELSE [calls |-> <<>>, err |-> NoError]
            submit == IF gasCalc.err # NoError
                      THEN [calls |-> <<>>, err |-> gasCalc.err]
                      ELSE IF tx.signer
                      THEN sendSigned(tx, signErr, submitErr)
                      ELSE submitTXtoNode(tx, submitErr)
        IN  /\ rpcLog' = gasCalc.calls \o submit.calls
            /\ sendErr' = submit.err
    /\ txState' = "sent"
    /\ UNCHANGED <<tx, txReceipt>>
    /\ UNCHANGED <<limVars, gwVars, rtVars, rrVars, csVars, regVars, cdVars, abVars, cfVars>>

\* mutant of isMined: any block number the node filled in counts
isMinedNonNil(blockNumber) == blockNumber # <<>>

\* a receipt is mined when its BlockNumber is non-nil and non-zero
isMined(blockNumber) == blockNumber # <<>> /\ blockNumber[1] # 0

\* a transaction of a privacy group, whose receipt the node keeps apart
isOrionTX(t) == t.PrivacyGroupID # "" /\ t.PrivateFrom # ""

\* Txn.GetTXReceipt of a transaction that was sent: eth_getTransactionReceipt
\* and, for a mined transaction of a privacy group, the private receipt
GetTXReceipt ==
    /\ txState = "sent"
    /\ sendErr = NoError
    /\ \E getErr \in ReceiptErrors, privErr \in ReceiptErrors,
          blockNumber \in BlockNumbers :
        LET first == rpcCall("eth_getTransactionReceipt", tx, getErr)
            second == rpcCall("priv_getTransactionReceipt", tx, privErr)
        IN  IF getErr # NoError
            THEN /\ rpcLog' = <<first>>
                 /\ txReceipt' =
                       [BlockNumber |-> <<>>, isMined |-> FALSE,
                        err |-> <<"eth_getTransactionReceipt returned: ">>
                                    \o getErr]
            ELSE IF isOrionTX(tx) /\ isMined(blockNumber)
            THEN /\ rpcLog' = <<first, second>>
                 /\ txReceipt' =
                       IF privErr # NoError
                       THEN [BlockNumber |-> blockNumber, isMined |-> FALSE,
                             err |-> <<"priv_getTransactionReceipt returned: ">>
                                         \o privErr]
                       ELSE [BlockNumber |-> blockNumber, isMined |-> TRUE,
                             err |-> NoError]
            ELSE /\ rpcLog' = <<first>>
                 /\ txReceipt' =
                       [BlockNumber |-> blockNumber,
                        isMined |-> isMined(blockNumber), err |-> NoError]
    /\ txState' = "receipt"
    /\ UNCHANGED <<tx, sendErr>>
    /\ UNCHANGED <<limVars, gwVars, rtVars, rrVars, csVars, regVars, cdVars, abVars, cfVars>>

NextTx ==
    \/ NewTxn
    \/ Send
    \/ GetTXReceipt

\* --------------------------------------------------------------- ABI codec

\* 2^n
RECURSIVE Pow2(_)
Pow2(n) == IF n = 0 THEN 1 ELSE 2 * Pow2(n - 1)

\* the solidity types of the parameters: the 8-bit integers, the scalars,
\* slices of integers and a tuple (str1 string, val1 uint8, addr1 address)
IntTypes == {"int8", "uint8"}

SliceTypes == {"int8[]", "uint8[]"}

ParamTypes ==
    IntTypes \cup SliceTypes \cup {"bool", "address", "string", "bytes", "tuple"}

ElemType(T) == IF T = "int8[]" THEN "int8" ELSE "uint8"

TupleFields == <<"str1", "val1", "addr1">>

FieldType(f) ==
    CASE f = "str1" -> "string"
      [] f = "val1" -> "uint8"
      [] f = "addr1" -> "address"

\* JSON values
Num(n) == [k |-> "number", v |-> n]

Str(s) == [k |-> "string", v |-> s]

Bool(b) == [k |-> "bool", v |-> b]

Arr(items) == [k |-> "array", v |-> items]

Obj(fields) == [k |-> "object", v |-> fields]

Digits == <<"0", "1", "2", "3", "4", "5", "6", "7", "8", "9">>

\* big.Int.String() of a natural number, digit by digit
RECURSIVE FormatNat(_)
FormatNat(n) ==
    IF n < 10
    THEN <<Digits[n + 1]>>
    ELSE FormatNat(n \div 10) \o <<Digits[(n % 10) + 1]>>

FormatInt(n) == IF n < 0 THEN <<"-">> \o FormatNat(-n) ELSE FormatNat(n)

IsDigits(s) ==
    /\ Len(s) > 0
    /\ \A i \in DOMAIN s : \E d \in DOMAIN Digits : Digits[d] = s[i]

DigitValue(c) == (CHOOSE d \in DOMAIN Digits : Digits[d] = c) - 1

RECURSIVE ParseNat(_)
ParseNat(s) ==
    IF Len(s) = 1
    THEN DigitValue(s[1])
    ELSE 10 * ParseNat(SubSeq(s, 1, Len(s) - 1)) + DigitValue(s[Len(s)])

\* big.Int.SetString(s, 10): ok is false for anything but a decimal number
SetString(s) ==
    IF Len(s) > 1 /\ s[1] = "-" /\ IsDigits(Tail(s))
    THEN [ok |-> TRUE, n |-> -ParseNat(Tail(s))]
    ELSE IF IsDigits(s)
    THEN [ok |-> TRUE, n |-> ParseNat(s)]
    ELSE [ok |-> FALSE, n |-> 0]

\* the numbers supplied: inside and outside the 8-bit ranges
NumberInputs == {-129, -128, -1, 0, 123, 127, 128, 255, 256, 456}

ScalarInputs ==
    {Num(n) : n \in NumberInputs}
        \cup {Str(FormatInt(n)) : n \in NumberInputs}
        \cup {Str(<<"a", "b", "c">>), Str(<<"t", "r", "u", "e">>),
              Bool(TRUE), Bool(FALSE),
              Str(<<"0x", "aaaa">>), Str(<<"bbbb">>), Str(<<"0x", "AAAA">>),
              Str(<<"0x", "ff">>)}

\* the elements of the arrays supplied (TestSolidityIntSliceParamConversion:
\* 123, 456, 789 for int8[])
ElementInputs == {Num(123), Num(456), Str(<<"1", "2", "3">>), Num(-1)}

ArrayInputs ==
    {Arr(items) :
        items \in UNION {[1..n -> ElementInputs] : n \in 0..MaxArrayLen}}

ObjectInputs ==
    {Obj([f \in {"str1", "val1", "addr1"} |->
            CASE f = "str1" -> Str(<<"a", "b", "c">>)
              [] f = "val1" -> val
              [] f = "addr1" -> addr]) :
        val \in {Num(123), Str(<<"1", "2", "3">>), Num(456), Bool(TRUE)},
        addr \in {Str(<<"0x", "AAAA">>), Str(<<"bbbb">>)}}

ParamInputs == ScalarInputs \cup ArrayInputs \cup ObjectInputs

\* int8(v), uint8(v): the conversion of an int64 to the N-bit Go type keeps
\* the low N bits
getInteger(N, n) ==
    LET low == n % Pow2(N)
    IN  IF low >= Pow2(N - 1) THEN low - Pow2(N) ELSE low

getUnsignedInteger(N, n) == n % Pow2(N)

\* the N-bit range of a declared integer type
InRange(T, n) ==
    IF T = "int8"
    THEN -Pow2(IntBits - 1) <= n /\ n < Pow2(IntBits - 1)
    ELSE 0 <= n /\ n < Pow2(IntBits)

Typed(val) == [err |-> <<>>, val |-> val]

Refused(msg) == [err |-> <<msg>>, val |-> 0]

\* a 20-byte address of hexadecimal characters, with or without 0x
IsHexAddress(s) ==
    \E h \in Hex40 : ToLower(TrimPrefix0x(ToLower(s))) = <<h>>

\* generateTypedArg for a scalar type
scalarArg(T, V) ==
    CASE T \in IntTypes ->
            IF V.k = "number"
            THEN Typed(IF T = "int8" THEN getInteger(IntBits, V.v)
                       ELSE getUnsignedInteger(IntBits, V.v))
            ELSE IF V.k = "string"
            THEN IF SetString(V.v).ok
                 THEN Typed(IF T = "int8"
                            THEN getInteger(IntBits, SetString(V.v).n)
                            ELSE getUnsignedInteger(IntBits, SetString(V.v).n))
                 ELSE Refused("Could not be converted to a number")
            ELSE Refused("Must supply a number or a string")
      [] T = "bool" ->
            IF V.k = "bool" THEN Typed(V.v)
            ELSE IF V.k = "string"
            THEN Typed(V.v = <<"t", "r", "u", "e">>)
            ELSE Refused("Must supply a boolean or a string")
      [] T = "address" ->
            IF V.k # "string" THEN Refused("Must supply a hex address string")
            ELSE IF IsHexAddress(V.v)
            THEN Typed(TrimPrefix0x(ToLower(V.v)))
            ELSE Refused("Could not be converted to a hex address")
      [] T = "string" ->
            IF V.k = "string" THEN Typed(V.v)
            ELSE Refused("Must supply a string")
      [] T = "bytes" ->
            IF V.k # "string" THEN Refused("Must supply a hex string")
            ELSE Typed(TrimPrefix0x(ToLower(V.v)))

\* generateTypedArg: slices element by element, tuples field by field
generateTypedArg(T, V) ==
    CASE T \in SliceTypes ->
            IF V.k # "array" THEN Refused("Must supply an array")
            ELSE LET elems == [i \in DOMAIN V.v |->
                                  scalarArg(ElemType(T), V.v[i])]
                 IN  IF \E i \in DOMAIN elems : elems[i].err # <<>>
                     THEN [err |-> elems[CHOOSE i \in DOMAIN elems :
                                       /\ elems[i].err # <<>>
                                       /\ \A j \in 1..(i - 1) :
                                             elems[j].err = <<>>].err,
                           val |-> 0]
                     ELSE Typed([i \in DOMAIN elems |-> elems[i].val])
      [] T = "tuple" ->
            IF V.k # "object" THEN Refused("Must supply an object")
            ELSE LET fields == [i \in DOMAIN TupleFields |->
                                   scalarArg(FieldType(TupleFields[i]),
                                             V.v[TupleFields[i]])]
                 IN  IF \E i \in DOMAIN fields : fields[i].err # <<>>
                     THEN [err |-> fields[CHOOSE i \in DOMAIN fields :
                                       /\ fields[i].err # <<>>
                                       /\ \A j \in 1..(i - 1) :
                                             fields[j].err = <<>>].err,
                           val |-> 0]
                     ELSE Typed([i \in DOMAIN fields |-> fields[i].val])
      [] OTHER -> scalarArg(T, V)

\* Pack of one scalar: an integer as the two's complement word, the others
\* as their bytes
packScalar(T, val) ==
    CASE T \in IntTypes -> val % Pow2(WordBits)
      [] T = "bool" -> IF val THEN 1 ELSE 0
      [] OTHER -> val

\* ABIArguments.Pack: the words of a typed value
Pack(T, val) ==
    CASE T \in SliceTypes ->
            <<Len(val)>> \o [i \in DOMAIN val |-> packScalar(ElemType(T), val[i])]
      [] T = "tuple" ->
            [i \in DOMAIN TupleFields |->
                packScalar(FieldType(TupleFields[i]), val[i])]
      [] OTHER -> <<packScalar(T, val)>>

\* the JSON of one unpacked scalar: integers as decimal strings, addresses
\* and bytes as 0x-prefixed hex
decodeScalar(T, word) ==
    CASE T = "int8" -> Str(FormatInt(getInteger(IntBits, word)))
      [] T = "uint8" -> Str(FormatInt(getUnsignedInteger(IntBits, word)))
      [] T = "bool" -> Bool(word # 0)
      [] T = "string" -> Str(word)
      [] OTHER -> Str(Prefix0x(word))

\* ProcessRLPBytes: the JSON of the packed words, read through the type
ProcessRLPBytes(T, words) ==
    CASE T \in SliceTypes ->
            Arr([i \in 1..words[1] |-> decodeScalar(ElemType(T), words[i + 1])])
      [] T = "tuple" ->
            Obj([f \in {"str1", "val1", "addr1"} |->
                    LET i == CHOOSE j \in DOMAIN TupleFields :
                                 TupleFields[j] = f
                    IN  decodeScalar(FieldType(f), words[i])])
      [] OTHER -> decodeScalar(T, words[1])

NoCodec ==
    [stage |-> "none", type |-> "bool", input |-> Bool(FALSE), err |-> <<>>,
     typed |-> 0, packed |-> <<>>, decoded |-> Bool(FALSE)]

InitCodec == codec = NoCodec

\* tx.generateTypedArgs for one parameter of a declared type
generateTypedArgs ==
    /\ codec.stage = "none"
    /\ \E T \in ParamTypes, V \in ParamInputs :
        LET r == generateTypedArg(T, V)
        IN  codec' = [codec EXCEPT !.stage = IF r.err = <<>> THEN "typed"
                                             ELSE "refused",
                                   !.type = T, !.input = V, !.err = r.err,
                                   !.typed = r.val]
    /\ UNCHANGED <<limVars, gwVars, rtVars, rrVars, csVars, regVars, txVars, abVars, cfVars>>

\* abiMethod.Inputs.Pack(typedArgs...)
PackArgs ==
    /\ codec.stage = "typed"
    /\ codec' = [codec EXCEPT !.stage = "packed",
                              !.packed = Pack(codec.type, codec.typed)]
    /\ UNCHANGED <<limVars, gwVars, rtVars, rrVars, csVars, regVars, txVars, abVars, cfVars>>

\* ProcessRLPBytes(abiMethod.Outputs, rlp) with the outputs typed as the
\* inputs
DecodeArgs ==
    /\ codec.stage = "packed"
    /\ codec' = [codec EXCEPT !.stage = "decoded",
                              !.decoded = ProcessRLPBytes(codec.type,
                                                          codec.packed)]
    /\ UNCHANGED <<limVars, gwVars, rtVars, rrVars, csVars, regVars, txVars, abVars, cfVars>>

NextCodec ==
    \/ generateTypedArgs
    \/ PackArgs
    \/ DecodeArgs

\* -------------------------------- contract store: the ABI objects it hands out

\* GetABI hands out a pointer to the DeployContractWithAddress that the
\* store's cache holds; resolveABI and deployContract write the headers of
\* the object behind it.

DeployReqs == 1..MaxDeployReqs

StoreABITypes == {"LocalABI", "RemoteGateway", "RemoteInstance"}

\* Headers.ID of an ABI as stored or registered
OriginalABIID == "abi1"

\* fly-id of a request, or the UUID it is given
RequestIDs == {"id1", "id2"}

NoObj == [isNil |-> TRUE, ID |-> "", ABIID |-> "", Address |-> "",
          Description |-> ""]

\* mockRR.deployMsg, when the registry knows the contract
RegistryMsg ==
    [isNil |-> FALSE, ID |-> OriginalABIID, ABIID |-> "",
     Address |-> "address", Description |-> "description"]

\* mutant of fromRegistry: the address of the registry's answer is kept for
\* a gateway
fromRegistryKeepAddress(type, has) ==
    IF has THEN RegistryMsg ELSE NoObj

\* what the store makes of the registry's answer: LoadFactoryForGateway
\* yields a DeployContract, which has no address
fromRegistry(type, has) ==
    IF ~has THEN NoObj
    ELSE IF type = "RemoteGateway"
    THEN [RegistryMsg EXCEPT !.Address = ""]
    ELSE RegistryMsg

\* the parsed deploy file of the local ABI
fromFile == [RegistryMsg EXCEPT !.Address = ""]

\* contractStore.GetABI(location, false): the cached object if there is
\* one, else the file or the registry; a result that is not nil is cached
storeGetABI(objects, type, has) ==
    IF ~objects[type].isNil
    THEN [result |-> objects[type], registryCalled |-> FALSE,
          objects |-> objects]
    ELSE LET loaded == IF type = "LocalABI" THEN fromFile
                       ELSE fromRegistry(type, has)
         IN  [result |-> loaded, registryCalled |-> type # "LocalABI",
              objects |-> IF loaded.isNil THEN objects
                          ELSE [objects EXCEPT ![type] = loaded]]

InitAB ==
    /\ mrrDeployMsg = TRUE
    /\ abiObjects = [t \in StoreABITypes |-> NoObj]
    /\ abiLast = [type |-> "none", result |-> NoObj, registryCalled |-> FALSE]
    /\ deployReqs = [k \in DeployReqs |->
                        [pos |-> "new", type |-> "LocalABI", ID |-> "",
                         ABIID |-> ""]]

\* mrr.deployMsg = nil, or set again
SetRegistry ==
    /\ mrrDeployMsg' = ~mrrDeployMsg
    /\ UNCHANGED <<abiObjects, abiLast, deployReqs>>
    /\ UNCHANGED <<limVars, gwVars, rtVars, rrVars, csVars, regVars, txVars, cdVars, cfVars>>

\* cs.GetABI(location, false)
GetABIStore ==
    /\ \E type \in StoreABITypes :
        LET r == storeGetABI(abiObjects, type, mrrDeployMsg)
        IN  /\ abiObjects' = r.objects
            /\ abiLast' = [type |-> type, result |-> r.result,
                           registryCalled |-> r.registryCalled]
    /\ UNCHANGED <<mrrDeployMsg, deployReqs>>
    /\ UNCHANGED <<limVars, gwVars, rtVars, rrVars, csVars, regVars, txVars, cdVars, cfVars>>

\* resolveABI, lines 243-253, of a deploy request: c.deployMsg is the
\* Contract of the object GetABI handed out, and its Headers.ABIID is set
\* from its Headers.ID
resolveABIDeploy ==
    /\ \E k \in DeployReqs, type \in {"LocalABI", "RemoteGateway"} :
        /\ deployReqs[k].pos = "new"
        /\ \A j \in 1..(k - 1) : deployReqs[j].pos # "new"
        /\ LET r == storeGetABI(abiObjects, type, mrrDeployMsg)
           IN  IF r.result.isNil
               THEN /\ deployReqs' = [deployReqs EXCEPT ![k].pos = "notfound",
                                                        ![k].type = type]
                    /\ abiObjects' = r.objects
               ELSE /\ deployReqs' = [deployReqs EXCEPT ![k].pos = "resolved",
                                                        ![k].type = type]
                    /\ abiObjects' =
                          [r.objects EXCEPT ![type].ABIID = r.objects[type].ID]
    /\ UNCHANGED <<mrrDeployMsg, abiLast>>
    /\ UNCHANGED <<limVars, gwVars, rtVars, rrVars, csVars, regVars, txVars, cdVars, cfVars>>

\* deployContract, lines 550-597: assignMessageID writes Headers.ID of the
\* same object, and the message is dispatched
deployContractDispatch ==
    /\ \E k \in DeployReqs, id \in RequestIDs :
        /\ deployReqs[k].pos = "resolved"
        /\ abiObjects' = [abiObjects EXCEPT ![deployReqs[k].type].ID = id]
        /\ deployReqs' =
              [deployReqs EXCEPT
                  ![k].pos = "sent", ![k].ID = id,
                  ![k].ABIID = abiObjects[deployReqs[k].type].ABIID]
    /\ UNCHANGED <<mrrDeployMsg, abiLast>>
    /\ UNCHANGED <<limVars, gwVars, rtVars, rrVars, csVars, regVars, txVars, cdVars, cfVars>>

NextAB ==
    \/ SetRegistry
    \/ GetABIStore
    \/ resolveABIDeploy
    \/ deployContractDispatch

\* ------------------------------------------- webhooksDirect: configuration

\* value MaxInFlight is given when it is not positive, line 171
DefaultMaxInFlight == 10

\* least MaxTXWaitTime, lines 164-168
MinTXWaitTime == 10

\* WebhooksDirectConf values as configured: RPC.URL, MaxTXWaitTime,
\* MaxInFlight
ConfURLs == {"", "http://localhost:8545"}

ConfWaitTimes == {-1, 0, 5, 9, 10, 11, 60}

ConfMaxInFlights == {-5, -1, 0, 1, 2, 10, 11, 100}

Confs == [URL : ConfURLs, MaxTXWaitTime : ConfWaitTimes,
          MaxInFlight : ConfMaxInFlights]

NoConf == [URL |-> "", MaxTXWaitTime |-> 0, MaxInFlight |-> 0]

\* mutant of validateWebhooksDirectConf: a MaxInFlight of zero is kept
validateWebhooksDirectConfKeepsZero(conf) ==
    IF conf.URL = ""
    THEN [err |-> "ConfigWebhooksDirectRPC", conf |-> conf]
    ELSE [err |-> "",
          conf |-> [URL |-> conf.URL,
                    MaxTXWaitTime |->
                        IF conf.MaxTXWaitTime < MinTXWaitTime
                        THEN MinTXWaitTime ELSE conf.MaxTXWaitTime,
                    MaxInFlight |->
                        IF conf.MaxInFlight < 0
                        THEN DefaultMaxInFlight ELSE conf.MaxInFlight]]

\* validateWebhooksDirectConf, lines 160-174: the error it returns and the
\* configuration it leaves behind the pointer
validateWebhooksDirectConf(conf) ==
    IF conf.URL = ""
    THEN [err |-> "ConfigWebhooksDirectRPC", conf |-> conf]
    ELSE [err |-> "",
          conf |-> [URL |-> conf.URL,
                    MaxTXWaitTime |->
                        IF conf.MaxTXWaitTime < MinTXWaitTime
                        THEN MinTXWaitTime ELSE conf.MaxTXWaitTime,
                    MaxInFlight |->
                        IF conf.MaxInFlight <= 0
                        THEN DefaultMaxInFlight ELSE conf.MaxInFlight]]

InitConf ==
    wdConf = [stage |-> "none", given |-> NoConf, conf |-> NoConf, err |-> ""]

\* a configuration is read
ReadConf ==
    /\ wdConf.stage = "none"
    /\ \E c \in Confs :
        wdConf' = [stage |-> "read", given |-> c, conf |-> c, err |-> ""]
    /\ UNCHANGED <<limVars, gwVars, rtVars, rrVars, csVars, regVars, txVars, cdVars, abVars>>

\* validateWebhooksDirectConf(conf)
ValidateConf ==
    /\ wdConf.stage = "read"
    /\ LET r == validateWebhooksDirectConf(wdConf.conf)
       IN  wdConf' = [wdConf EXCEPT !.stage = "validated",
                                    !.conf = r.conf, !.err = r.err]
    /\ UNCHANGED <<limVars, gwVars, rtVars, rrVars, csVars, regVars, txVars, cdVars, abVars>>

NextConf ==
    \/ ReadConf
    \/ ValidateConf

Init == InitLim /\ InitGw /\ InitRt /\ InitRR /\ InitCS /\ InitReg /\ InitTx /\ InitCodec /\ InitAB /\ InitConf

Next == NextLim

Spec == Init /\ [][Next]_vars

SpecGateway == Init /\ [][NextGw]_vars

SpecRoute == Init /\ [][NextRt]_vars

SpecRegistry == Init /\ [][NextRR]_vars

SpecStore == Init /\ [][NextCS]_vars

SpecRegister == Init /\ [][NextReg]_vars

SpecSend == Init /\ [][NextTx]_vars

SpecCodec == Init /\ [][NextCodec]_vars

SpecABI == Init /\ [][NextAB]_vars

SpecConf == Init /\ [][NextConf]_vars

TypeOK ==
    /\ maxInFlight \in 1..MaxCap
    /\ DOMAIN inFlight \subseteq MsgIDs
    /\ \A k \in DOMAIN inFlight : inFlight[k] \in Calls

\* ------------------------------------------------------------------ claims

\* the map entry under c's msgID is c's own context
HasEntry(c) == msgID[c] \in DOMAIN inFlight /\ inFlight[msgID[c]] = c

\* accepted (handed to processor.OnMessage) and not yet replied to
Unreplied == {c \in handed : replyPc[c] # "done"}

\* C1: in every reachable state of the limiter the inFlight map holds at most
\* MaxInFlight entries.
C1_InFlightBounded == MapLen(inFlight) <= maxInFlight

\* C1 witness: the map is full after a reply has freed a slot that a later
\* dispatch took, and a further dispatch was turned away.
C1_Witness ==
    /\ MapLen(inFlight) = maxInFlight
    /\ \E c \in Calls : replyPc[c] = "done"
    /\ \E c \in Calls : status[c] = StatusTooMany

\* C2 (as claimed): the number of accepted messages not yet replied to never
\* exceeds MaxInFlight, whatever message ids the callers supply.
C2_UnrepliedBounded == Cardinality(Unreplied) <= maxInFlight

\* C3: a call returns 429 only if the size it read under the mutex was at
\* least MaxInFlight (and the size it read is the map's size for as long as
\* it holds the mutex); a call that read a smaller size and whose headers
\* parse inserts its context under its msgID and returns 200.
C3_RejectIffFull ==
    /\ [](\A c \in Calls :
            /\ status[c] = StatusTooMany => numInFlight[c] >= maxInFlight
            /\ pc[c] = "held" => /\ numInFlight[c] = MapLen(inFlight)
                                 /\ inFlightMutex = <<"dispatch", c>>
            /\ (pc[c] = "returned" /\ numInFlight[c] < maxInFlight
                    /\ headersOK[c]) => status[c] = StatusOK /\ c \in handed)
    /\ [][\A c \in Calls :
            /\ (status[c] # StatusTooMany /\ status'[c] = StatusTooMany)
                    => MapLen(inFlight) >= maxInFlight
            /\ (pc[c] = "lock" /\ pc'[c] # "lock"
                    /\ MapLen(inFlight) < maxInFlight) => pc'[c] = "held"
            /\ (pc[c] = "held" /\ pc'[c] # "held" /\ headersOK[c])
                    => /\ msgID[c] \in DOMAIN inFlight'
                       /\ inFlight'[msgID[c]] = c]_vars

\* C3 witness: one call was turned away with 429 and another, having read a
\* size below the cap, was accepted and returned 200.
C3_Witness ==
    /\ \E c \in Calls : status[c] = StatusTooMany
    /\ \E c \in Calls : /\ status[c] = StatusOK
                        /\ numInFlight[c] < maxInFlight
                        /\ numInFlight[c] > 0

\* C4: a call rejected with 429 has returned, owns no map entry and was never
\* handed to the processor, in the rejecting step and in every later state;
\* the rejecting step leaves the map and the processor's messages unchanged.
C4_NonQueueing ==
    /\ [](\A c \in Calls : status[c] = StatusTooMany =>
            /\ pc[c] = "returned"
            /\ c \notin handed
            /\ replyPc[c] = "none"
            /\ \A k \in DOMAIN inFlight : inFlight[k] # c)
    /\ [][\A c \in Calls :
            (status[c] # StatusTooMany /\ status'[c] = StatusTooMany)
                => inFlight' = inFlight /\ handed' = handed]_vars

\* C4 witness: a call was rejected with 429 and capacity has since been freed
\* by a reply.
C4_Witness ==
    \E c \in Calls :
        /\ status[c] = StatusTooMany
        /\ MapLen(inFlight) < maxInFlight
        /\ \E d \in Calls : replyPc[d] = "done"

\* the two dispatches c (first to take the mutex) and d are the only ones
\* issued, carry distinct message ids, and d took the mutex while c was
\* still inside sendWebhookMsg
TwoConcurrent(c, d) ==
    /\ c \in overlapped[d]
    /\ msgID[c] # msgID[d]
    /\ headersOK[d]
    /\ \A e \in Calls \ {c, d} : pc[e] = "lock"

\* C5 (as claimed): with MaxInFlight=1 and two concurrent dispatches with
\* distinct message ids, the second returns 429 in every interleaving.
C5_SecondAlwaysRejected ==
    \A c, d \in Calls :
        (maxInFlight = 1 /\ TwoConcurrent(c, d) /\ pc[d] = "returned")
            => status[d] = StatusTooMany

\* C5 (amended): with MaxInFlight=1, a dispatch that takes the mutex while an
\* earlier accepted dispatch is still inside sendWebhookMsg and has not been
\* replied to is rejected with 429; of two dispatches, the second is let in
\* (not rejected with 429) when the first has already been replied to.
C5_SecondRejectedUnlessReplied ==
    [][\A c, d \in Calls :
        /\ (/\ maxInFlight = 1
             /\ pc[c] \in {"onmsg", "inproc"}
             /\ replyPc[c] # "done"
             /\ pc[d] = "lock" /\ pc'[d] # "lock")
                => /\ status'[d] = StatusTooMany
                   /\ pc'[d] = "returned"
        /\ (/\ maxInFlight = 1
             /\ pc[c] \in {"onmsg", "inproc"}
             /\ replyPc[c] = "done"
             /\ \A e \in Calls \ {c, d} : pc[e] = "lock"
             /\ pc[d] = "lock" /\ pc'[d] # "lock")
                => /\ status'[d] # StatusTooMany
                   /\ pc'[d] = "held"]_vars

\* C5 witness: MaxInFlight=1, two concurrent dispatches with distinct ids,
\* the first still unreplied, the second rejected with 429.
C5_Witness ==
    \E c, d \in Calls :
        /\ maxInFlight = 1
        /\ TwoConcurrent(c, d)
        /\ replyPc[c] = "none"
        /\ status[d] = StatusTooMany

\* C6 (as claimed): an async POST of the gateway whose dispatch was rejected
\* for the in-flight cap is answered with HTTP 429.
C6_CapRejectionAnswered429 ==
    \A c \in Calls :
        (Origin(headersOK[c]) = "rest" /\ status[c] = StatusTooMany)
            => httpStatus[c] = StatusTooMany

\* C7 (as claimed): the entry of an accepted message stays in the map until
\* Reply is called on that message's own context.
C7_EntryUntilOwnReply ==
    \A c \in Calls :
        (pc[c] \in {"onmsg", "inproc", "returned"} /\ status[c] \in {NoStatus, StatusOK}
            /\ replyPc[c] # "done") => HasEntry(c)

\* a reply entry point has written its response
Replied == rpc \in {"written", "doneset", "finished"}

\* C8 (as claimed): whenever the dispatcher invokes a reply entry point, the
\* handler's wait ends; no interleaving leaves the handler parked in Wait once
\* the reply, with its only Broadcast, is over.
C8_NoLostWakeup ==
    ~(sync /\ hpc = "parked" /\ ~notified /\ rpc = "finished")

\* C9: on the sync path the handler has returned only if a reply entry point
\* has set done, after writing the response; a cancelled request context
\* does not let it return.
C9_ReturnsOnlyWhenDone ==
    /\ [](sync /\ hpc = "returned" =>
            /\ done
            /\ resWrites >= 1
            /\ resStatus # NoStatus
            /\ rpc \in {"doneset", "finished"})
    /\ [][(sync' /\ hpc # "returned" /\ hpc' = "returned") => done]_vars

\* C9 witness: the request context was cancelled while the sync handler was
\* running, the reply came from the dispatcher's own thread, and the handler
\* has returned with done set.
C9_Witness ==
    /\ sync /\ reqCancelled /\ ~inline
    /\ hpc = "returned" /\ done

\* C10 (as claimed): ReplyWithReceipt writes 200 exactly when the receipt's
\* MsgType is MsgTypeTransactionSuccess, and 500 otherwise.
C10_ReceiptStatusByTypeOnly ==
    (Replied /\ entry = "ReplyWithReceipt") =>
        /\ resStatus \in {StatusOK, StatusServerError}
        /\ resStatus = StatusOK <=> receipt.msgType = MsgTypeTransactionSuccess

\* C10 (amended): ReplyWithReceipt writes 200 exactly when the receipt's
\* MsgType is MsgTypeTransactionSuccess and the post-deploy hook, if it was
\* invoked, did not fail, and 500 otherwise; ReplyWithError and
\* ReplyWithReceiptAndError write 500; an accepted async dispatch is
\* answered 202.
C10_StatusSelection ==
    /\ (Replied /\ entry = "ReplyWithReceipt") =>
        /\ resStatus \in {StatusOK, StatusServerError}
        /\ resStatus = StatusOK <=>
              (receipt.msgType = MsgTypeTransactionSuccess /\ ~hookFailed)
    /\ (Replied /\ entry \in {"ReplyWithError", "ReplyWithReceiptAndError"})
            => resStatus = StatusServerError
    /\ (~sync /\ hpc = "returned" /\ dispatched = StatusOK)
            => resStatus = StatusAccepted

\* C10 witness: a success receipt with a contract address, whose post-deploy
\* hook succeeded, was answered 200.
C10_Witness ==
    /\ Replied /\ entry = "ReplyWithReceipt"
    /\ receipt.msgType = MsgTypeTransactionSuccess
    /\ receipt.hasContractAddress /\ postDeployCalls = 1 /\ ~hookFailed
    /\ resStatus = StatusOK

Routed == reqMethod # "none"

\* the operation by the precedence of restHandler's tests on the command,
\* leaving the from test aside
ClaimedOp ==
    IF cmd.abiEvent # NoElement THEN "subscribeEvent"
    ELSE IF cmd.transactionHash # <<>> THEN "lookupTransaction"
    ELSE IF reqMethod # "POST" \/ cmd.abiMethod.constant \/ callParam
    THEN "callContract"
    ELSE IF cmd.isDeploy THEN "deployContract"
    ELSE "sendTransaction"

\* C12 (as claimed): for every resolved request restHandler invokes exactly
\* one operation: subscribeEvent if an event was selected, else
\* lookupTransaction if transaction is set, else callContract if the verb is
\* not POST or the method is constant or call=true, else deployContract if
\* isDeploy, else sendTransaction.
C12_OneOperationByPrecedence == Routed => op = ClaimedOp

\* C12 (amended): as above, except that a request which would go to
\* deployContract or sendTransaction with an empty from invokes no operation
\* and is answered 400.
C12_OperationUnlessFromMissing ==
    Routed =>
        IF ClaimedOp \in {"deployContract", "sendTransaction"}
           /\ cmd.from = <<>>
        THEN op = "none" /\ rtStatus = StatusBadRequest
        ELSE op = ClaimedOp

\* C12 witness: a POST of a non-constant method with call=true and no
\* transaction hash went to callContract.
C12_Witness ==
    /\ Routed
    /\ reqMethod = "POST"
    /\ callParam
    /\ cmd.abiMethod.type = "function"
    /\ ~cmd.abiMethod.constant
    /\ cmd.from # <<>>
    /\ op = "callContract"

\* C13: a request that would go to sendTransaction or deployContract with an
\* empty from is answered 400 with the missing-from error, invokes no
\* operation and hands nothing to a dispatcher; a request routed to
\* callContract, lookupTransaction or subscribeEvent reaches that operation
\* whatever its from and is never answered with the missing-from error.
C13_FromRequired ==
    /\ Routed =>
        IF ClaimedOp \in {"deployContract", "sendTransaction"}
        THEN cmd.from = <<>> =>
                /\ stage = "answered"
                /\ rtStatus = StatusBadRequest
                /\ rtErr = "RESTGatewayMissingFromAddress"
                /\ op = "none"
                /\ handedTo = "none"
        ELSE /\ op = ClaimedOp
             /\ rtErr # "RESTGatewayMissingFromAddress"
    /\ handedTo # "none" => cmd.from # <<>>

\* C13 witness: a deploy request without from was answered 400.
C13_Witness ==
    /\ Routed
    /\ cmd.isDeploy
    /\ cmd.from = <<>>
    /\ rtErr = "RESTGatewayMissingFromAddress"
    /\ rtStatus = StatusBadRequest

\* the message carries both privacy fields
MixedPrivacy(m) == Len(m.PrivateFor) > 0 /\ m.PrivacyGroupID # <<>>

\* C14: no SendTransaction or DeployContract message with both PrivateFor
\* and PrivacyGroupID non-empty is handed to the sync or async dispatcher; a
\* request that builds such a message is answered 400 and nothing is handed
\* over.
C14_NoMixedPrivacyDispatched ==
    /\ handedTo # "none" => ~MixedPrivacy(outMsg)
    /\ MixedPrivacy(outMsg) =>
        /\ stage = "answered"
        /\ rtStatus = StatusBadRequest
        /\ handedTo = "none"

\* C14 witness: a SendTransaction with both fields set was answered 400.
C14_Witness ==
    /\ outMsg.kind = "SendTransaction"
    /\ MixedPrivacy(outMsg)
    /\ rtStatus = StatusBadRequest

\* C15 (as claimed): a deploy request with a register name is answered 409
\* exactly when the name is already taken, then nothing is handed to a
\* dispatcher, and the check asks the remote registry iff the ABI came from
\* the remote registry.
C15_ConflictIffNameTaken ==
    nameCheck.called =>
        /\ (rtStatus = StatusConflict) <=> nameCheck.taken
        /\ rtStatus = StatusConflict => handedTo = "none"
        /\ nameCheck.isRemote <=> cmd.remote

\* the target selection of resolveParams has run on the loaded ABI: a
\* target is selected, or the selection was answered with an error
TargetErrors ==
    {"RESTGatewayABIInvalid", "RESTGatewayEventNotDeclared",
     "RESTGatewayMethodNotDeclared", "RESTGatewayInvalidToAddress"}

Selected ==
    \/ stage = "target"
    \/ stage = "answered" /\ rtErr \in TargetErrors

DeclaresFunction(name) ==
    \E i \in DOMAIN abi : abi[i].type = "function" /\ abi[i].name = name

C17_ConstructorIffNoMethod ==
    /\ methodParam # <<>> => ~cmd.isDeploy
    /\ stage = "target" =>
        /\ cmd.isDeploy <=> methodParam = <<>>
        /\ cmd.isDeploy =>
            \/ \E i \in DOMAIN abi :
                  /\ abi[i].type = "constructor"
                  /\ \A j \in 1..(i - 1) : abi[j].type # "constructor"
                  /\ cmd.abiMethod = abi[i]
            \/ /\ \A i \in DOMAIN abi : abi[i].type # "constructor"
               /\ cmd.abiMethod = DefaultConstructor
               /\ cmd.abiMethod.inputs = <<>>
    /\ (cmd.isDeploy /\ cmd.abiMethod = DefaultConstructor) =>
        /\ cmd.msgParams = <<>>
        /\ rtErr # "RESTGatewayMissingParameter"

\* C17 witness: a deploy through the default constructor whose body carried
\* an input reached deployContract with an empty parameter vector.
C17_Witness ==
    /\ op = "deployContract"
    /\ methodParam = <<>>
    /\ cmd.abiMethod = DefaultConstructor
    /\ cmd.body = {"x"}
    /\ cmd.msgParams = <<>>

\* an event was selected: restHandler goes to subscribeEvent
EventRouted == (Routed /\ cmd.abiEvent # NoElement) => op = "subscribeEvent"

UnknownABI ==
    /\ stage = "answered"
    /\ \/ rtErr = "RESTGatewayInstanceNotFound"
       \/ /\ rtErr = "GetABI"
          /\ reqPath.prefix = "abis"
          /\ cmd.abiName \notin abiIdx

\* C20 (as claimed): a request that names an ABI unknown to the contract
\* store is answered 404.
C20_UnknownABINotFound == UnknownABI => rtStatus = StatusNotFound

\* ---- C21 ----
\* an address as the dispatchers expect it: "0x" and 40 lowercase
\* hexadecimal characters
IsAddress(s) == \E h \in Hex40 : s = <<"0x", h>>

\* C21: after resolveParams has succeeded the to-address is empty or "0x"
\* followed by 40 lowercase hexadecimal characters, and from is empty, such
\* an address, or an HD-wallet reference.
C21_AddressesNormalized ==
    stage = "resolved" =>
        /\ cmd.addr = <<>> \/ IsAddress(cmd.addr)
        /\ cmd.from = <<>> \/ IsAddress(cmd.from) \/ IsHDWalletRequest(cmd.from)

\* ---- C22 ----
\* the key an input is addressed by: its name, or for an unnamed input at
\* position i (from 0) "input" for i = 0 and "input<i>" otherwise
InputKey(i, name) ==
    IF name # "" THEN name
    ELSE IF i = 0 THEN "input"
    ELSE IF i = 1 THEN "input1"
    ELSE "input2"

\* the vector holds, for each input in ABI order, the body value of its key
\* if the body has the key, else the first query value of that key, and
\* every input has one of the two
Marshaled ==
    /\ Len(cmd.msgParams) = Len(cmd.abiMethod.inputs)
    /\ \A i \in DOMAIN cmd.abiMethod.inputs :
        LET k == InputKey(i - 1, cmd.abiMethod.inputs[i])
        IN  IF k \in cmd.body
            THEN cmd.msgParams[i] = [src |-> "body", key |-> k, n |-> 0]
            ELSE /\ Len(queryParams[k]) > 0
                 /\ cmd.msgParams[i] = [src |-> "query", key |-> k, n |-> 1]

\* a request answered with the missing-parameter error: 400, no operation,
\* nothing dispatched, and some input has neither a body nor a query value
MissingAnswered ==
    rtErr = "RESTGatewayMissingParameter" =>
        /\ rtStatus = StatusBadRequest
        /\ op = "none"
        /\ handedTo = "none"
        /\ \E i \in DOMAIN cmd.abiMethod.inputs :
            LET k == InputKey(i - 1, cmd.abiMethod.inputs[i])
            IN  k \notin cmd.body /\ Len(queryParams[k]) = 0

\* C22 (as claimed): whenever resolveParams succeeds with a selected method,
\* the parameter vector has one entry per input taken from the body or else
\* from the query string; a missing input is answered 400.
C22_ParamsMarshaled ==
    /\ (stage = "resolved" /\ cmd.abiMethod # NoElement) => Marshaled
    /\ MissingAnswered

\* C22 (amended): the same for a selected method of a request without
\* transaction=<hash>; with a transaction hash no parameter is marshaled
\* and no input is required.
C22_ParamsMarshaledUnlessLookup ==
    /\ (stage = "resolved" /\ cmd.abiMethod # NoElement) =>
          IF cmd.transactionHash = <<>> THEN Marshaled
          ELSE cmd.msgParams = <<>>
    /\ MissingAnswered

\* C22 witness: a method with a named and an unnamed input resolved with the
\* named one in both body and query string and the unnamed one, at position
\* 1, in the query string only.
C22_Witness ==
    /\ stage = "resolved"
    /\ cmd.abiMethod.inputs = <<"x", "">>
    /\ cmd.body = {"x"}
    /\ Len(queryParams["x"]) > 0
    /\ cmd.msgParams = <<[src |-> "body", key |-> "x", n |-> 0],
                         [src |-> "query", key |-> "input1", n |-> 1]>>

\* ---- C23 ----
\* the key of the load a step makes, and what that load returns for a
\* stored message: a gateway load returns it without the address
LoadKey == cacheKey(rrLast'.ns, rrLast'.lookupStr)

IsLoad == rrDB' = rrDB /\ rrLast'.ns # "none"

Returned(ns, msg) == IF ns = "gateways" THEN DeployContractOf(msg) ELSE msg

\* C23 (as claimed): with the cache database open, once a load of an id has
\* succeeded every later load of it with refresh=false issues no GET and
\* returns a message equal to the first result.
C23_CachedFirstResult ==
    [][(IsLoad /\ rrDB /\ ~rrLast'.refresh /\ ~rrFirst[LoadKey].isNil) =>
          /\ ~rrLast'.get
          /\ rrLast'.msg = Returned(rrLast'.ns, rrFirst[LoadKey])]_vars

\* C23 (amended): with the cache database open, once the result of a load
\* of an id has been written to the cache every later load of it with
\* refresh=false issues no GET, leaves the cache alone and returns a message
\* equal to the result last written to the cache for that id.
C23_CachedStoredResult ==
    [][(IsLoad /\ rrDB /\ ~rrLast'.refresh /\ ~rrStored[LoadKey].isNil) =>
          /\ ~rrLast'.get
          /\ rrLast'.err = ""
          /\ rrLast'.msg = Returned(rrLast'.ns, rrStored[LoadKey])
          /\ rrCache' = rrCache]_vars

\* C23 witness: a gateway load with refresh=false answered from the cache
\* with the first result.
C23_Witness ==
    /\ rrDB
    /\ rrLast.ns = "gateways"
    /\ ~rrLast.refresh
    /\ ~rrLast.get
    /\ ~rrLast.msg.isNil
    /\ rrLast.msg = DeployContractOf(rrFirst[cacheKey("gateways", <<"a/b">>)])

\* ---- C24 ----
\* the load before this one was a successful refresh=true load of the same
\* key, and this one has refresh=false
AfterRefresh ==
    /\ IsLoad /\ rrDB
    /\ rrLast.refresh /\ ~rrLast.msg.isNil
    /\ rrLast'.ns = rrLast.ns /\ rrLast'.lookupStr = rrLast.lookupStr
    /\ ~rrLast'.refresh

\* C24 (as claimed): a load with refresh=true always issues the GET and on
\* success overwrites the cache entry of its key; the next load with
\* refresh=false returns the refreshed value without a GET.
C24_RefreshOverwrites ==
    [][/\ (IsLoad /\ rrLast'.refresh) =>
            /\ rrLast'.get
            /\ (rrDB /\ ~rrLast'.msg.isNil) =>
                  /\ rrCache'[LoadKey] # NoBytes
                  /\ Returned(rrLast'.ns, Unmarshal(rrCache'[LoadKey]))
                        = rrLast'.msg
       /\ AfterRefresh => (~rrLast'.get /\ rrLast'.msg = rrLast.msg)]_vars

\* C24 (amended): a load with refresh=true always issues the GET; on
\* success, if the cache write succeeds the entry of its key is overwritten
\* and the next load with refresh=false returns the refreshed value without
\* a GET; if the write fails the cache is left as it was.
C24_RefreshOverwritesIfStored ==
    [][/\ (IsLoad /\ rrLast'.refresh) =>
            /\ rrLast'.get
            /\ (rrDB /\ ~rrLast'.msg.isNil /\ rrLast'.stored) =>
                  /\ rrCache'[LoadKey] # NoBytes
                  /\ Returned(rrLast'.ns, Unmarshal(rrCache'[LoadKey]))
                        = rrLast'.msg
            /\ ~rrLast'.stored => rrCache' = rrCache
       /\ (AfterRefresh /\ rrLast.stored) =>
            (~rrLast'.get /\ rrLast'.msg = rrLast.msg)]_vars

\* C24 witness: an instance first loaded with one value was reloaded with
\* refresh=true, and the cache now holds the other value it returned.
C24_Witness ==
    /\ rrDB
    /\ rrLast.ns = "instances"
    /\ rrLast.refresh /\ rrLast.get /\ rrLast.stored
    /\ ~rrFirst[cacheKey("instances", <<"a/b">>)].isNil
    /\ rrLast.msg # rrFirst[cacheKey("instances", <<"a/b">>)]
    /\ Unmarshal(rrCache[cacheKey("instances", <<"a/b">>)]) = rrLast.msg

\* ---- C25 ----
\* C25: a 404 from the registry returns no message and no error; every load
\* that returns no message (404, a failed request, an error status, a
\* missing or malformed property) returns an error unless it was a 404 and
\* leaves the cache as it was.
C25_NotFoundAndErrorsKeepCache ==
    [][IsLoad =>
        /\ (rrLast'.get /\ rrLast'.status = StatusNotFound) =>
              (rrLast'.msg.isNil /\ rrLast'.err = "")
        /\ (rrLast'.msg.isNil /\ rrLast'.status # StatusNotFound) =>
              rrLast'.err # ""
        /\ rrLast'.msg.isNil => (rrCache' = rrCache /\ ~rrLast'.stored)]_vars

\* C25 witness: a refresh=true load of a cached key got a 404; it returned
\* nothing and no error, and the entry is still there.
C25_Witness ==
    /\ rrDB
    /\ rrLast.ns = "gateways"
    /\ rrLast.refresh /\ rrLast.get
    /\ rrLast.status = StatusNotFound
    /\ rrLast.msg.isNil /\ rrLast.err = ""
    /\ rrCache[cacheKey("gateways", <<"a/b">>)] # NoBytes

\* ---- C26 ----
\* the message the cache holds for an id
CachedMsg(id) == abiCache[cacheValue(abiCache, id)].msg

\* C26: a GetABI for a LocalABI id that is in the decode cache (read before
\* and not evicted since) reads no file and succeeds with the cached
\* message, whatever the file now holds; a GetABI for an id absent from
\* abiIndex fails with "No ABI found with ID" and leaves the cache as it was.
C26_CachedReadNoFile ==
    [][abiFiles' = abiFiles =>
        /\ csLast'.id \in cacheIDs(abiCache) =>
              /\ ~csLast'.fileRead
              /\ csLast'.err = ""
              /\ csLast'.msg = CachedMsg(csLast'.id)
              /\ cacheIDs(abiCache') = cacheIDs(abiCache)
        /\ csLast'.id \notin ABIIDs =>
              /\ csLast'.err = "No ABI found with ID"
              /\ ~csLast'.fileRead
              /\ abiCache' = abiCache]_vars

\* C26 witness: a GetABI answered from the cache with the message read
\* earlier although the file has been emptied since.
C26_Witness ==
    /\ csLast.id \in ABIIDs
    /\ ~csLast.fileRead
    /\ csLast.err = ""
    /\ csLast.msg = "msg1"
    /\ abiFiles[csLast.id] = ""
    /\ Len(abiCache) = MaxCached

\* ---- C27 ----
\* the ContractInfo entries of the store
Entries == {a \in ContractAddrs : contractIndex[a] # NoInfo}

Methods == [i \in DOMAIN rpcLog |-> rpcLog[i].method]

Issued(method) == \E i \in DOMAIN rpcLog : rpcLog[i].method = method

Submitted == \E i \in DOMAIN rpcLog : rpcLog[i].method \in SubmitMethods

\* C28 as stated: Send issues eth_estimateGas exactly when gas was not
\* supplied and no signer is configured; with a signer no eth_estimateGas
\* comes before eth_sendRawTransaction.
C28_EstimateIffNoGasNoSigner ==
    txState = "sent" =>
        /\ Issued("eth_estimateGas") <=> (tx.gas = 0 /\ ~tx.signer)
        /\ tx.signer => ~Issued("eth_estimateGas")

\* C28 amended: a Send that submits has issued eth_estimateGas first exactly
\* when gas was not supplied, with a signer as without one; with gas
\* supplied Send never issues eth_estimateGas, so that a signer with gas
\* supplied is sent with eth_sendRawTransaction as the only call.
C28_EstimateIffNoGas ==
    txState = "sent" =>
        /\ Submitted =>
              (tx.gas = 0 <=> Methods[1] = "eth_estimateGas")
        /\ tx.gas # 0 => ~Issued("eth_estimateGas")
        /\ (Submitted /\ tx.signer /\ tx.gas # 0) =>
              Methods = <<"eth_sendRawTransaction">>

\* a signer and no gas: the estimation, then the raw transaction
C28_Witness ==
    /\ txState = "sent"
    /\ tx.signer
    /\ tx.gas = 0
    /\ Methods = <<"eth_estimateGas", "eth_sendRawTransaction">>

\* ---- C29 ----
EstimateFailed ==
    \E i \in DOMAIN rpcLog :
        rpcLog[i].method = "eth_estimateGas" /\ rpcLog[i].err # NoError

\* C29: when eth_estimateGas fails, Send next issues an eth_call and returns
\* an error in both outcomes, "Call failed: <reason>" when the call fails
\* and "Failed to calculate gas for transaction: <estimate error>" when it
\* succeeds; nothing is submitted after a failed estimation.
C29_FailedEstimateNeverSubmits ==
    (txState = "sent" /\ EstimateFailed) =>
        /\ Methods = <<"eth_estimateGas", "eth_call">>
        /\ sendErr =
              IF rpcLog[2].err # NoError
              THEN <<"Call failed: ">> \o rpcLog[2].err
              ELSE <<"Failed to calculate gas for transaction: ">>
                       \o rpcLog[1].err
        /\ ~Submitted

\* the estimation failed and the call went through
C29_Witness ==
    /\ txState = "sent"
    /\ EstimateFailed
    /\ rpcLog[2].err = NoError
    /\ sendErr = <<"Failed to calculate gas for transaction: ", "pop">>

\* ---- C30 ----
\* Send got as far as submitting: no gas calculation failed
ReachedSubmit == txState = "sent" /\ ~EstimateFailed

\* the one call that is not part of the gas calculation
SubmitCalls == {i \in DOMAIN rpcLog : rpcLog[i].method \in SubmitMethods}

\* C30: without a signer the submit method follows from the privacy fields
\* alone: a privacy group and private-from give eea_sendTransaction, a
\* privacy group without private-from gives the error and no submit,
\* anything else eth_sendTransaction carrying privateFor; with a signer a
\* private transaction fails with "... is not currently supported with
\* private transactions" and nothing is submitted.
C30_SubmitMethodByPrivacy ==
    ReachedSubmit =>
        /\ (~tx.signer /\ tx.PrivacyGroupID # "" /\ tx.PrivateFrom # "") =>
              /\ \E i \in SubmitCalls : rpcLog[i].method = "eea_sendTransaction"
              /\ Cardinality(SubmitCalls) = 1
        /\ (~tx.signer /\ tx.PrivacyGroupID # "" /\ tx.PrivateFrom = "") =>
              /\ sendErr = <<"private-from is required when submitting ",
                             "private transactions via Orion">>
              /\ SubmitCalls = {}
        /\ (~tx.signer /\ tx.PrivacyGroupID = "") =>
              /\ \E i \in SubmitCalls :
                    /\ rpcLog[i].method = "eth_sendTransaction"
                    /\ rpcLog[i].privateFor = tx.PrivateFor
              /\ Cardinality(SubmitCalls) = 1
        /\ (tx.signer /\ (tx.PrivateFor # <<>> \/ tx.PrivacyGroupID # "")) =>
              /\ sendErr[Len(sendErr)] =
                    " is not currently supported with private transactions"
              /\ SubmitCalls = {}

\* a privacy group without private-from, gas supplied: the error and no call
C30_Witness ==
    /\ txState = "sent"
    /\ ~tx.signer
    /\ tx.PrivacyGroupID # ""
    /\ tx.PrivateFrom = ""
    /\ tx.gas # 0
    /\ rpcLog = <<>>
    /\ sendErr # NoError

\* ---- C31 ----
\* the public receipt was fetched and shows a block
PublicMined ==
    /\ rpcLog[1].err = NoError
    /\ txReceipt.BlockNumber # <<>>
    /\ txReceipt.BlockNumber[1] # 0

\* C31: GetTXReceipt calls eth_getTransactionReceipt first; it calls
\* priv_getTransactionReceipt as well exactly when PrivacyGroupID and
\* PrivateFrom are both set and the public receipt is mined; it reports
\* mined exactly when the public call succeeded with a non-nil, non-zero
\* BlockNumber, except that a failed private call returns its error with
\* mined = false.
C31_ReceiptCalls ==
    txState = "receipt" =>
        /\ Methods[1] = "eth_getTransactionReceipt"
        /\ Issued("priv_getTransactionReceipt") <=>
              (tx.PrivacyGroupID # "" /\ tx.PrivateFrom # "" /\ PublicMined)
        /\ Len(rpcLog) = IF Issued("priv_getTransactionReceipt") THEN 2 ELSE 1
        /\ IF Len(rpcLog) = 2 /\ rpcLog[2].err # NoError
           THEN /\ ~txReceipt.isMined
                /\ txReceipt.err =
                      <<"priv_getTransactionReceipt returned: ">>
                          \o rpcLog[2].err
           ELSE txReceipt.isMined <=> PublicMined
        /\ rpcLog[1].err # NoError =>
              txReceipt.err =
                  <<"eth_getTransactionReceipt returned: ">> \o rpcLog[1].err

\* a mined transaction of a privacy group whose private receipt failed
C31_Witness ==
    /\ txState = "receipt"
    /\ Methods = <<"eth_getTransactionReceipt", "priv_getTransactionReceipt">>
    /\ txReceipt.BlockNumber = <<10>>
    /\ ~txReceipt.isMined
    /\ txReceipt.err = <<"priv_getTransactionReceipt returned: ", "pop">>

\* ---- C32 ----
\* a number, or the decimal string of one
SuppliedInt(V) == V.k = "number" \/ (V.k = "string" /\ SetString(V.v).ok)

IntValue(V) == IF V.k = "number" THEN V.v ELSE SetString(V.v).n

\* an integer was supplied whose value the declared type cannot hold
OutOfRange(T, V) ==
    \/ T \in IntTypes /\ SuppliedInt(V) /\ ~InRange(T, IntValue(V))
    \/ /\ T \in SliceTypes
       /\ V.k = "array"
       /\ \E i \in DOMAIN V.v :
             SuppliedInt(V.v[i]) /\ ~InRange(ElemType(T), IntValue(V.v[i]))

\* C32: input marshaling range-checks integers: a number or decimal string
\* outside the N-bit range of the declared uintN or intN, also as the
\* element of an array, is rejected with an error.
C32_IntegersRangeChecked ==
    (codec.stage # "none" /\ OutOfRange(codec.type, codec.input)) =>
        codec.stage = "refused"

\* ---- C33 ----
\* the JSON a scalar input stands for: integers as decimal strings,
\* addresses and bytes as lowercase 0x-hex
EquivalentScalar(T, V) ==
    CASE T \in IntTypes -> Str(FormatInt(IntValue(V)))
      [] T = "bool" ->
            Bool(IF V.k = "bool" THEN V.v ELSE V.v = <<"t", "r", "u", "e">>)
      [] T = "string" -> V
      [] OTHER -> Str(Prefix0x(TrimPrefix0x(ToLower(V.v))))

Equivalent(T, V) ==
    CASE T \in SliceTypes ->
            Arr([i \in DOMAIN V.v |-> EquivalentScalar(ElemType(T), V.v[i])])
      [] T = "tuple" ->
            Obj([f \in {"str1", "val1", "addr1"} |->
                    EquivalentScalar(FieldType(f), V.v[f])])
      [] OTHER -> EquivalentScalar(T, V)

\* C33: for every JSON input accepted by input marshaling for a type,
\* packing the typed value and decoding the bytes through the same type
\* yields the equivalent JSON.
C33_RoundTrip ==
    codec.stage = "decoded" =>
        codec.decoded = Equivalent(codec.type, codec.input)

\* ---- C34 ----
\* C34: every deploy message built from an ABI carries in its ABIID header
\* the original ID of that ABI, in any sequence of requests against the same
\* ABI, also when the ABI object comes from the store's cache and an earlier
\* request has assigned its message ID to the headers.
C34_ABIIDIsOriginal ==
    \A k \in DeployReqs :
        deployReqs[k].pos = "sent" => deployReqs[k].ABIID = OriginalABIID

\* ---- C37 ----
\* this step is a GetABI that returned something new
GetABIReturned == abiLast' # abiLast

\* C37: GetABI for a RemoteInstance stores a registry result that is not nil
\* in the store's cache, so that a second GetABI returns the same address
\* and contract without the registry; a nil registry result is returned as
\* nil and is not cached; a RemoteGateway result never carries an address.
C37_RemoteResultCached ==
    /\ []((abiLast.type # "none" /\ ~abiLast.result.isNil) =>
            /\ ~abiObjects[abiLast.type].isNil
            /\ abiObjects[abiLast.type].Address = abiLast.result.Address
            /\ abiObjects[abiLast.type].Description
                  = abiLast.result.Description)
    /\ [](abiLast.type = "RemoteGateway" => abiLast.result.Address = "")
    /\ [][(GetABIReturned /\ ~abiObjects[abiLast'.type].isNil) =>
            /\ ~abiLast'.registryCalled
            /\ abiLast'.result.Address = abiObjects[abiLast'.type].Address
            /\ abiLast'.result.Description
                  = abiObjects[abiLast'.type].Description]_vars
    /\ [][(GetABIReturned /\ abiLast'.result.isNil) =>
            /\ abiLast'.registryCalled
            /\ abiObjects' = abiObjects
            /\ abiObjects'[abiLast'.type].isNil]_vars

\* the instance is answered from the cache after the registry lost it
C37_Witness ==
    /\ abiLast.type = "RemoteInstance"
    /\ ~mrrDeployMsg
    /\ ~abiLast.registryCalled
    /\ abiLast.result.Address = "address"

\* ---- C35 ----
\* C35: a dispatch whose headers do not parse returns 400, leaves the map as
\* it is, is never handed to the processor and releases the mutex, so that
\* a later dispatch takes it; the size is tested first, so such a dispatch
\* arriving at a full map returns 429.
C35_MalformedRejected ==
    /\ [](\A c \in Calls : (pc[c] = "returned" /\ ~headersOK[c]) =>
            /\ status[c] = (IF numInFlight[c] >= maxInFlight
                            THEN StatusTooMany ELSE StatusBadRequest)
            /\ c \notin handed
            /\ \A k \in DOMAIN inFlight : inFlight[k] # c
            /\ inFlightMutex # <<"dispatch", c>>)
    /\ [][\A c \in Calls :
            (pc[c] = "held" /\ ~headersOK[c] /\ pc'[c] # "held") =>
                /\ pc'[c] = "returned"
                /\ status'[c] = StatusBadRequest
                /\ inFlight' = inFlight
                /\ handed' = handed
                /\ inFlightMutex' = Free]_vars

\* a malformed dispatch returned 400 and a later dispatch was let in, and a
\* malformed dispatch that met a full map returned 429
C35_Witness ==
    /\ \E c, d \in Calls :
          /\ c < d
          /\ status[c] = StatusBadRequest
          /\ status[d] = StatusOK
    /\ \E c \in Calls : ~headersOK[c] /\ status[c] = StatusTooMany

\* ---- C36 ----
\* a Reply is inside its critical section
Replying(c) == replyPc[c] = "locked"

\* C36: Reply holds the in-flight mutex from before it forwards the stamped
\* reply until it has deleted the entry; the reply it forwards carries the
\* request's id; an entry leaves the map, and the map gets smaller, only in
\* a step of a Reply that holds the mutex and has forwarded its reply; no
\* dispatch takes the mutex or reads the map meanwhile.
C36_ReplyAtomic ==
    /\ [](\A c \in Calls :
            /\ Replying(c) =>
                /\ inFlightMutex = <<"reply", c>>
                /\ [ctx |-> c, reqID |-> msgID[c]] \in receipts
                /\ \A d \in Calls : pc[d] # "held"
            /\ replyPc[c] = "done" =>
                [ctx |-> c, reqID |-> msgID[c]] \in receipts)
    /\ [][\A k \in MsgIDs :
            (k \in DOMAIN inFlight /\ k \notin DOMAIN inFlight') =>
                \E c \in Calls :
                    /\ msgID[c] = k
                    /\ inFlightMutex = <<"reply", c>>
                    /\ [ctx |-> c, reqID |-> k] \in receipts
                    /\ replyPc'[c] = "done"]_vars
    /\ [][\A d \in Calls :
            (pc[d] = "lock" /\ pc'[d] # "lock") =>
                \A c \in Calls : ~Replying(c)]_vars

\* a reply has been forwarded while its entry is still in the map and a
\* dispatch waits for the mutex; and another reply has freed its entry
C36_Witness ==
    \E c, d, e \in Calls :
        /\ Replying(c)
        /\ msgID[c] \in DOMAIN inFlight /\ inFlight[msgID[c]] = c
        /\ pc[d] = "lock"
        /\ replyPc[e] = "done"

\* ---- C38 ----
\* C38: the mutex is held by a dispatch only between its lock and its
\* insert or 400, never once it has returned 429, 400 or 200 nor while the
\* processor runs; whoever holds the mutex can take its next step and
\* release it, and a processor inside OnMessage that replies takes the
\* mutex as soon as it is free: no state is stuck on the mutex.
C38_MutexReleased ==
    \A c \in Calls :
        /\ pc[c] \in {"lock", "onmsg", "inproc", "returned"}
              => inFlightMutex # <<"dispatch", c>>
        /\ inFlightMutex = <<"dispatch", c>> => ENABLED swInsert(c)
        /\ inFlightMutex = <<"reply", c>> => ENABLED ReplyDone(c)
        /\ (pc[c] = "inproc" /\ replyPc[c] = "none" /\ inFlightMutex = Free)
              => ENABLED ReplyLock(c)
        /\ (pc[c] = "lock" /\ inFlightMutex = Free
                /\ \A d \in Calls : d < c => pc[d] # "lock")
              => ENABLED swLock(c)

\* the processor replied before OnMessage returned, after dispatches that
\* returned 400 and 429
C38_Witness ==
    \E c, d, e \in Calls :
        /\ pc[c] = "inproc" /\ replyPc[c] = "done"
        /\ status[d] = StatusBadRequest
        /\ status[e] = StatusTooMany

\* ---- C39 ----
\* C39: the invocation of a reply entry point writes one response: the step
\* of the entry point adds one write to res, a finished reply has left one
\* response on res, ReplyWithReceipt with a failed hook has left the
\* receipt-and-error response and no other, and done goes from false to
\* true once, after the write.
C39_OneResponsePerReply ==
    /\ [](Replied =>
            /\ resWrites = 1
            /\ (entry = "ReplyWithReceipt" /\ hookFailed)
                  => resBody = "receiptAndError"
            /\ (entry = "ReplyWithReceipt" /\ ~hookFailed)
                  => resBody = "receipt"
            /\ entry = "ReplyWithReceiptAndError"
                  => resBody = "receiptAndError"
            /\ entry = "ReplyWithError" => resBody = "error")
    /\ [][(rpc = "handed" /\ rpc' # rpc) => resWrites' = resWrites + 1]_vars
    /\ [][(rpc # "none" /\ resWrites' # resWrites) => rpc = "handed"]_vars
    /\ [][done' # done => (~done /\ rpc = "written" /\ rpc' = "doneset")]_vars

\* ReplyWithReceipt whose hook failed is over: one response, done set
C39_Witness ==
    /\ entry = "ReplyWithReceipt"
    /\ hookFailed
    /\ rpc = "finished"
    /\ resWrites = 1
    /\ resBody = "receiptAndError"
    /\ done

\* ---- C40 ----
\* C40: after validateWebhooksDirectConf has returned no error, MaxInFlight
\* is 10 if it was given as zero or less and as given otherwise, hence at
\* least 1, and MaxTXWaitTime is at least 10; with an empty RPC URL it
\* returns an error and the configuration is as it was given.
C40_ConfValidated ==
    wdConf.stage = "validated" =>
        /\ (wdConf.err # "") <=> (wdConf.given.URL = "")
        /\ wdConf.err = "" =>
            /\ wdConf.conf.MaxInFlight >= 1
            /\ wdConf.conf.MaxInFlight =
                  (IF wdConf.given.MaxInFlight <= 0 THEN 10
                   ELSE wdConf.given.MaxInFlight)
            /\ wdConf.conf.MaxTXWaitTime >= 10
        /\ wdConf.err # "" => wdConf.conf = wdConf.given

\* a configuration with MaxInFlight zero and a short wait time was accepted
C40_Witness ==
    /\ wdConf.stage = "validated"
    /\ wdConf.err = ""
    /\ wdConf.given.MaxInFlight = 0
    /\ wdConf.given.MaxTXWaitTime = 5
    /\ wdConf.conf.MaxInFlight = 10

====
